---------------------------- MODULE Spec2Model ----------------------------
(***************************************************************************)
(* A model of cgi-runas (src/cgi-runas.c): the setuid helper that checks a *)
(* CGI script, drops privileges to the script's owner and calls the CGI   *)
(* handler.  main() is modelled section by section; the functions it      *)
(* calls are operators computed as the C code computes them.              *)
(*                                                                         *)
(* C strings are TLA+ strings; the character at C index i of s is         *)
(* CharAt(s, i), and the terminating null byte is the token NUL.          *)
(*                                                                         *)
(* System calls and library functions (stat, realpath, getpwuid, setuid,  *)
(* ...) are oracles: each action draws their result from a finite set.    *)
(*                                                                         *)
(* Specifications:                                                         *)
(*   SpecStart  main() from process start to the end of the CGI_HANDLER   *)
(*              checks (lines 1272-1419).  ASS_IXOTH rejects every         *)
(*              regular file, so no behaviour of main() gets further.      *)
(*   SpecMain   main() from the DATE_FORMAT check to execve (lines         *)
(*              1421-1627), started in every state in which line 1421      *)
(*              could be entered if a CGI_HANDLER were accepted.           *)
(*   SpecSubdir is_subdir_f applied to every pair of bounded strings.      *)
(***************************************************************************)
EXTENDS Integers, Sequences, FiniteSets, TLC

VARIABLES
    pc,          \* the statement of main() that is executed next
    status,      \* RUNNING, an exit status, EXEC (image replaced) or KILLED
    env_in,      \* env_p: the captured environment (sequence of entries)
    env_i,       \* position of env_p in the captured environment (from 1)
    environ,     \* the process environment: variable name |-> value
    prog_path,   \* global prog_path
    dirs,        \* is_excl_owner_f: the directories still to be checked
    www,         \* www_uid and www_gid, or NULLREC before they are assigned
    pwd,         \* struct passwd *pwd: a record or NULLREC
    grp,         \* struct group *grp: a record or NULLREC
    script_path, \* script_path, or NULL before it is assigned
    script_fs,   \* struct stat script_fs, or NULLREC before it is filled
    pw_dir,      \* what pwd->pw_dir yields once pwd is NULL (line 1559)
    creds,       \* the credentials of the process
    caller,      \* real UID and GID of the invoking process (never changes)
    done,        \* the operations of main() performed so far
    sys_ok,      \* FALSE once a system or library call has reported failure
    world_ok,    \* FALSE once a file or account was found in another state
                 \* than a correct installation and request have it in
    insecure,    \* the checks of ownership and mode at which a file or
                 \* directory was found with another owner or mode than the
                 \* check requires
    cgi_handler_fs,  \* struct stat cgi_handler_fs, or NULLREC before it is filled
    dirname_inplace, \* whether the C library's dirname() writes to its argument
    arg,         \* argument of the function under test (function specs)
    res          \* its result (function specs)

vars == <<pc, status, env_in, env_i, environ, prog_path, dirs, www, pwd, grp,
          script_path, script_fs, pw_dir, creds, caller, done, sys_ok,
          world_ok, insecure, cgi_handler_fs, dirname_inplace, arg, res>>

-----------------------------------------------------------------------------
(* Exit statuses, lines 153-195.                                           *)

EX_NOINPUT == 66
EX_NOUSER == 67
EX_UNAVAILABLE == 69
EX_SOFTWARE == 70
EX_OSERR == 71
EX_NOPERM == 77
EX_CONFIG == 78

CR_PATH_MAX == 256
CR_SECURE_PATH_MAX == 1024

\* Not exit statuses: the process is running, has replaced its image by
\* execve, or was killed by a signal (an invalid memory access).
RUNNING == 0
EXEC == -1
KILLED == -2

\* A null pointer: to a string, and to a record (struct stat, passwd, group).
NULL == "NULL"
NULLREC == [null |-> TRUE]

ExitStatuses ==
    {EX_NOINPUT, EX_NOUSER, EX_UNAVAILABLE, EX_SOFTWARE, EX_OSERR,
     EX_NOPERM, EX_CONFIG}

-----------------------------------------------------------------------------
(* <sys/stat.h>: the bits of st_mode that the code tests.                  *)

S_IFMT == 61440
S_IFDIR == 16384
S_IFREG == 32768
S_ISUID == 2048
S_ISGID == 1024
S_IWOTH == 2
S_IXOTH == 1

RECURSIVE BitAnd(_, _)
BitAnd(a, b) ==
    IF a = 0 \/ b = 0 THEN 0
    ELSE (IF a % 2 = 1 /\ b % 2 = 1 THEN 1 ELSE 0)
         + 2 * BitAnd(a \div 2, b \div 2)

RECURSIVE BitXor(_, _)
BitXor(a, b) ==
    IF a = 0 THEN b
    ELSE IF b = 0 THEN a
    ELSE (IF a % 2 # b % 2 THEN 1 ELSE 0)
         + 2 * BitXor(a \div 2, b \div 2)

S_ISDIR(mode) == BitAnd(mode, S_IFMT) = S_IFDIR
S_ISREG(mode) == BitAnd(mode, S_IFMT) = S_IFREG

-----------------------------------------------------------------------------
(* Configuration.  cgi-runas.c requires these macros from its config.h;   *)
(* the values are those of the end-to-end scenarios of the specification. *)

CGI_HANDLER == "/usr/lib/cgi-bin/php"
DATE_FORMAT == "%b %e %T"
SCRIPT_BASE_DIR == "/srv/home"
SCRIPT_SUFFIX == ".php"
SCRIPT_MIN_UID == 1000
SCRIPT_MAX_UID == 50000
SCRIPT_MIN_GID == 1000
SCRIPT_MAX_GID == 50000
SECURE_PATH == "/usr/bin:/bin"
WWW_USER == "www-data"
WWW_GROUP == "www-data"

-----------------------------------------------------------------------------
(* C strings.                                                              *)

NUL == "NUL"

\* s[i] for 0 <= i <= strlen(s).
CharAt(s, i) == IF i < Len(s) THEN SubSeq(s, i + 1, i + 1) ELSE NUL

STREQ(a, b) == a = b
STRNE(a, b) == a # b

\* strncmp(a, b, strlen(b)) == 0: the comparison ends at a's null byte.
STRSTARTW(a, b) == Len(a) >= Len(b) /\ SubSeq(a, 1, Len(b)) = b

\* strstr(s, "="): the C index of the first "=", or -1 for NULL.
IndexOfEq(s) ==
    IF \E i \in 0..(Len(s) - 1) : CharAt(s, i) = "="
    THEN CHOOSE i \in 0..(Len(s) - 1) :
             /\ CharAt(s, i) = "="
             /\ \A j \in 0..(i - 1) : CharAt(s, j) # "="
    ELSE -1

\* strrchr(s, c): the tail of s from the last c, or NULL.
StrRChr(s, c) ==
    IF \E i \in 0..(Len(s) - 1) : CharAt(s, i) = c
    THEN LET i == CHOOSE k \in 0..(Len(s) - 1) :
                      /\ CharAt(s, k) = c
                      /\ \A j \in (k + 1)..(Len(s) - 1) : CharAt(s, j) # c
         IN  SubSeq(s, i + 1, Len(s))
    ELSE NULL

Range(f) == {f[x] : x \in DOMAIN f}

-----------------------------------------------------------------------------
(* The environment, lines 696-780 and 1351-1385.                           *)

safe_env_vars ==
    <<"HTTP_", "SSL_", "AUTH_TYPE=", "CONTENT_LENGTH=", "CONTENT_TYPE=",
      "CONTEXT_DOCUMENT_ROOT=", "CONTEXT_PREFIX=", "DATE_GMT=",
      "DATE_LOCAL=", "DOCUMENT_NAME=", "DOCUMENT_PATH_INFO=",
      "DOCUMENT_ROOT=", "DOCUMENT_URI=", "GATEWAY_INTERFACE=", "HTTPS=",
      "LAST_MODIFIED=", "PATH_INFO=", "PATH_TRANSLATED=", "QUERY_STRING=",
      "QUERY_STRING_UNESCAPED=", "REMOTE_ADDR=", "REMOTE_HOST=",
      "REMOTE_IDENT=", "REMOTE_PORT=", "REMOTE_USER=",
      "REDIRECT_ERROR_NOTES=", "REDIRECT_HANDLER=",
      "REDIRECT_QUERY_STRING=", "REDIRECT_REMOTE_USER=",
      "REDIRECT_SCRIPT_FILENAME=", "REDIRECT_STATUS=", "REDIRECT_URL=",
      "REQUEST_METHOD=", "REQUEST_URI=", "REQUEST_SCHEME=",
      "SCRIPT_FILENAME=", "SCRIPT_NAME=", "SCRIPT_URI=", "SCRIPT_URL=",
      "SERVER_ADMIN=", "SERVER_NAME=", "SERVER_ADDR=", "SERVER_PORT=",
      "SERVER_PROTOCOL=", "SERVER_SIGNATURE=", "SERVER_SOFTWARE=",
      "UNIQUE_ID=", "USER_NAME=", "TZ=">>

unsafe_env_vars == <<"HTTP_PROXY">>

\* Lines 1357 and 1360: the entry starts with one of the patterns.
MatchesAny(entry, patterns) ==
    \E k \in 1..Len(patterns) : STRSTARTW(entry, patterns[k])

\* Lines 1365-1370: the entry has a "=", a name before it and a value after it.
WellFormed(entry) ==
    LET sep == IndexOfEq(entry)
    IN  /\ sep # -1
        /\ sep # 0
        /\ sep + 1 # Len(entry)

NameOf(entry) == SubSeq(entry, 1, IndexOfEq(entry))
ValueOf(entry) == SubSeq(entry, IndexOfEq(entry) + 2, Len(entry))

\* A loop body without the deny-list of lines 1358-1362: C1 must tell it
\* from the code's.
KeepsEntryNoDeny(entry) ==
    /\ MatchesAny(entry, safe_env_vars)
    /\ WellFormed(entry)

\* Lines 1355-1380: whether the loop body reaches setenv_f for the entry.
KeepsEntry(entry) ==
    /\ MatchesAny(entry, safe_env_vars)
    /\ ~MatchesAny(entry, unsafe_env_vars)
    /\ WellFormed(entry)

\* setenv(name, value, ow) when it succeeds.
SetEnv(env, name, value, ow) ==
    IF ow = 1 THEN (name :> value) @@ env ELSE env @@ (name :> value)

\* The entry "name=value" that environ holds for a variable.
EnvEntry(env, name) == name \o "=" \o env[name]

-----------------------------------------------------------------------------
(* Path utilities, lines 965-985 and 1081-1143.                            *)

PATH_MAX == 4096

RECURSIVE StripTrail(_)
StripTrail(s) ==
    IF Len(s) > 1 /\ CharAt(s, Len(s) - 1) = "/"
    THEN StripTrail(SubSeq(s, 1, Len(s) - 1))
    ELSE s

\* The C index of the last "/" of s plus one; 0 if s has none.
LastSlash(s) ==
    IF \E i \in 1..Len(s) : CharAt(s, i - 1) = "/"
    THEN CHOOSE i \in 1..Len(s) :
             /\ CharAt(s, i - 1) = "/"
             /\ \A j \in (i + 1)..Len(s) : CharAt(s, j - 1) # "/"
    ELSE 0

\* dirname(3): the value it returns.
DirnameStripped(t) ==
    IF t = "" \/ LastSlash(t) = 0 THEN "."
    ELSE IF t = "/" \/ LastSlash(t) = 1 THEN "/"
    ELSE StripTrail(SubSeq(t, 1, LastSlash(t) - 1))

Dirname(path) == DirnameStripped(StripTrail(path))

\* dirname(3): what it leaves in the buffer it was given, where the C library
\* writes to the buffer; a path without "/" is left alone ("." is static).
DirnameBuffer(path) ==
    IF LastSlash(StripTrail(path)) = 0 THEN path ELSE Dirname(path)

\* An enumeration that tests for stop before it pushes the directory: C21
\* must tell it from the code's.
RECURSIVE dir_names_stop_first(_, _)
dir_names_stop_first(start, stop) ==
    LET dir == Dirname(start)
    IN  IF stop # NULL /\ STREQ(dir, stop) THEN <<>>
        ELSE IF STRNE(dir, "/") /\ STRNE(dir, ".")
             THEN dir_names_stop_first(dir, stop) \o <<dir>>
             ELSE <<dir>>

\* dir_names, lines 965-985, in the order in which is_excl_owner_f walks the
\* list (from the directory pushed last to the one pushed first).
RECURSIVE dir_names(_, _)
dir_names(start, stop) ==
    LET dir == Dirname(start)
    IN  IF (stop = NULL \/ STRNE(dir, stop)) /\ STRNE(dir, "/") /\ STRNE(dir, ".")
        THEN dir_names(dir, stop) \o <<dir>>
        ELSE <<dir>>

\* path_max, lines 1081-1102: stat_ok is whether stat(path) succeeded and
\* pc_path_max is what pathconf(dir, _PC_PATH_MAX) returned.
\* limit is the value of the macro PATH_MAX of <limits.h>.
path_max_with(limit, stat_ok, pc_path_max) ==
    IF ~stat_ok THEN -1
    ELSE LET first == IF -1 < pc_path_max /\ pc_path_max < CR_PATH_MAX
                      THEN pc_path_max ELSE CR_PATH_MAX
         IN  IF -1 < limit /\ limit < pc_path_max THEN limit ELSE first

\* path_max on the system the rest of the model runs on.
path_max(stat_ok, pc_path_max) ==
    path_max_with(PATH_MAX, stat_ok, pc_path_max)

\* path_max, lines 1088-1092: whether dirname writes to the buffer `path`.
PathMaxWrites(path, stat_ok, isdir, inplace) ==
    stat_ok /\ ~isdir /\ inplace /\ DirnameBuffer(path) # path

\* path_max, lines 1088-1092: the buffer `path` after the call.
PathAfterPathMax(path, stat_ok, isdir, inplace) ==
    IF PathMaxWrites(path, stat_ok, isdir, inplace)
    THEN DirnameBuffer(path) ELSE path

\* What the calls made by realpath_f return: stat and pathconf in the first
\* path_max, realpath, stat and pathconf in the second path_max.
\* realpath(3) fails, finds the path canonical, or resolves it to another.
PathconfOut == {-1, 8, PATH_MAX}
RealOut == {"fails", "same", "other"}
RealpathOracle ==
    {o \in [ok1 : BOOLEAN, dir1 : BOOLEAN, pc1 : PathconfOut, real : RealOut,
            ok2 : BOOLEAN, dir2 : BOOLEAN, pc2 : PathconfOut \ {-1}] :
        (~o.ok1 => ~o.dir1) /\ (~o.ok2 => ~o.dir2)}

\* realpath(3), line 1131: the canonical path of `path`, or NULL.
RealpathOf(path, out) ==
    IF out = "fails" THEN NULL
    ELSE IF out = "same" THEN path
    ELSE "/mnt/real" \o path

\* realpath_f, lines 1137-1142: the checks made on the canonical path.
RealpathChecked(path1, real1, max2) ==
    IF max2 = -1 \/ ~(Len(real1) > 0) \/ ~(Len(real1) <= max2)
    THEN [status |-> EX_UNAVAILABLE, path |-> path1, real |-> NULL]
    ELSE [status |-> RUNNING, path |-> path1, real |-> real1]

\* realpath_f, lines 1131-1135: realpath and the second call of path_max.
RealpathResolved(path1, real0, inplace, o) ==
    IF real0 = NULL
    THEN [status |-> EX_UNAVAILABLE, path |-> path1, real |-> NULL]
    ELSE RealpathChecked(path1,
                         PathAfterPathMax(real0, o.ok2, o.dir2, inplace),
                         path_max(o.ok2, o.pc2))

\* realpath_f, lines 1125-1131: the checks made on the path given.
RealpathGiven(path1, max1, inplace, o) ==
    IF Len(path1) = 0
    THEN [status |-> EX_SOFTWARE, path |-> path1, real |-> NULL]
    ELSE IF ~(Len(path1) <= max1)
    THEN [status |-> EX_UNAVAILABLE, path |-> path1, real |-> NULL]
    ELSE RealpathResolved(path1, RealpathOf(path1, o.real), inplace, o)

\* realpath_f, lines 1122-1143.  The result is [status, path, real]: the exit
\* status or RUNNING, the caller's buffer after the call and the value returned.
\* `literal` says that the buffer is a string literal: a write to it is an
\* invalid memory access.
realpath_f(path, literal, inplace, o) ==
    IF path_max(o.ok1, o.pc1) = -1
    THEN [status |-> EX_UNAVAILABLE, path |-> path, real |-> NULL]
    ELSE IF literal /\ PathMaxWrites(path, o.ok1, o.dir1, inplace)
    THEN [status |-> KILLED, path |-> path, real |-> NULL]
    ELSE RealpathGiven(PathAfterPathMax(path, o.ok1, o.dir1, inplace),
                       path_max(o.ok1, o.pc1), inplace, o)

\* A comparison that lets a path pass that differs from its canonical form:
\* C23 must tell it from the code's.
CanonComparedAccepts(r) ==
    r

\* ASS_CANON, line 588: the path given is compared with the canonical one.
CanonCompared(r) ==
    IF r.status # RUNNING THEN r
    ELSE IF ~STREQ(r.path, r.real)
         THEN [status |-> EX_UNAVAILABLE, path |-> r.path, real |-> r.real]
    ELSE r

\* ASS_CANON, lines 586-588.
ASS_CANON(path, literal, inplace, o) ==
    CanonCompared(realpath_f(path, literal, inplace, o))

\* Whether the calls of realpath_f all succeeded.
RealpathCallsOk(o) == o.ok1 /\ o.real # "fails" /\ o.ok2

\* The path was canonical and the file system's limit was not below its length.
RealpathAsInstalled(o) == o.real # "other" /\ o.pc1 # 8 /\ o.pc2 # 8

-----------------------------------------------------------------------------
(* stat(2): what it can return.                                            *)

Ids == {0, 1000, 50000}

\* The owners a script is found with: around both ends of the allowed range.
ScriptUids == {0, 999, 1000, 50001}
ScriptGids == {0, 999, 50000, 50001}

\* A regular file with rwxr-x--- (0750) and at most one of the set-UID,
\* set-GID, world-writable and world-executable bits, or a directory.
Modes == {S_IFREG + 488 + b : b \in {0, S_ISUID, S_ISGID, S_IWOTH, S_IXOTH}}
         \cup {S_IFDIR + 488 + b : b \in {0, S_IWOTH}}

StatOut ==
    {NULLREC} \cup [st_uid : {0, 1000}, st_gid : {0, 1000}, st_mode : Modes]

\* stat(2) of a directory.
DirStatOut ==
    {NULLREC} \cup [st_uid : Ids, st_gid : Ids,
                    st_mode : {S_IFDIR + 488, S_IFDIR + 488 + S_IWOTH}]

\* stat(2) of a script.
ScriptStatOut ==
    {NULLREC} \cup [st_uid : ScriptUids, st_gid : ScriptGids,
                    st_mode : {S_IFREG + 488, S_IFREG + 488 + S_IWOTH,
                               S_IFREG + 488 + S_ISUID, S_IFDIR + 488}]

-----------------------------------------------------------------------------
(* The assertion macros, lines 342-604.  Each yields the exit status of    *)
(* the panic it raises, or RUNNING if it lets the run continue.            *)

ASS_CONF_NEMPTY(cf) == IF STREQ(cf, "") THEN EX_CONFIG ELSE RUNNING
ASS_STAT(st) == IF st = NULLREC THEN EX_NOINPUT ELSE RUNNING
ASS_UID(st, uid) == IF st.st_uid # uid THEN EX_NOPERM ELSE RUNNING
ASS_GID(st, gid) == IF st.st_gid # gid THEN EX_NOPERM ELSE RUNNING
ASS_ISDIR(st) == IF ~S_ISDIR(st.st_mode) THEN EX_UNAVAILABLE ELSE RUNNING
ASS_ISREG(st) == IF ~S_ISREG(st.st_mode) THEN EX_UNAVAILABLE ELSE RUNNING
ASS_IXOTH(st) == IF BitXor(st.st_mode, S_IXOTH) # 0 THEN EX_NOPERM ELSE RUNNING
ASS_NWOTH(st) == IF BitAnd(st.st_mode, S_IWOTH) # 0 THEN EX_NOPERM ELSE RUNNING
ASS_NXOTH(st) == IF BitAnd(st.st_mode, S_IXOTH) # 0 THEN EX_NOPERM ELSE RUNNING
ASS_NSUID(st) == IF BitAnd(st.st_mode, S_ISUID) # 0 THEN EX_NOPERM ELSE RUNNING
ASS_NSGID(st) == IF BitAnd(st.st_mode, S_ISGID) # 0 THEN EX_NOPERM ELSE RUNNING

\* The file has the given owner and group and is not world-writable.
OwnedBy(st, uid, gid) ==
    st.st_uid = uid /\ st.st_gid = gid /\ BitAnd(st.st_mode, S_IWOTH) = 0

\* The statements are executed in order; the first panic ends the run.
RECURSIVE FirstFailure(_)
FirstFailure(checks) ==
    IF checks = <<>> THEN RUNNING
    ELSE IF Head(checks) # RUNNING THEN Head(checks)
    ELSE FirstFailure(Tail(checks))

\* A statement that is only executed if the stat before it succeeded.
After(st, check) == IF st = NULLREC THEN RUNNING ELSE check

-----------------------------------------------------------------------------
(* Groups of variables.                                                    *)

envVars == <<env_in, env_i, environ>>
idVars == <<www, pwd, grp>>
scriptVars == <<script_path, script_fs, pw_dir>>
credVars == <<creds, caller>>
fixedVars == <<dirname_inplace, arg, res>>
histVars == <<sys_ok, world_ok, insecure>>

\* The process ends with `out`, or goes on at `next` if `out` is RUNNING.
Goto(out, next) ==
    /\ status' = out
    /\ pc' = IF out = RUNNING THEN next ELSE pc

-----------------------------------------------------------------------------
(* main(), lines 1272-1419: from process start to the CGI_HANDLER checks.  *)

MaxEnv == 2

EnvPool ==
    {"HTTP_HOST=good", "HTTP_PROXY=evil", "HTTP_PROXY_X=evil",
     "LD_PRELOAD=/tmp/x.so", "TZ=UTC", "TZ=CET", "=x", "HTTPS", "",
     "PATH=/evil"}

Snapshots == UNION {[1..n -> EnvPool] : n \in 0..MaxEnv}

ProgPool == {"/usr/lib/cgi-bin/cgi-runas"}

\* The invoking process: the web server (33), root, or a user.
Callers == {[uid |-> 33, gid |-> 33], [uid |-> 0, gid |-> 0],
            [uid |-> 1000, gid |-> 50000]}

\* The credentials main() starts with: the helper is installed set-UID root
\* or not, and an effective UID of 0 holds the privileges to set UIDs and
\* GIDs, only the one to set GIDs, or neither.
InitCreds(c) ==
    {[ruid |-> c.uid, euid |-> x[1], suid |-> x[1],
      rgid |-> c.gid, egid |-> c.gid, sgid |-> c.gid,
      groups |-> {c.gid}, cap_setuid |-> x[2], cap_setgid |-> x[3]] :
        x \in {y \in {0, c.uid} \X BOOLEAN \X BOOLEAN :
                  /\ (y[2] \/ y[3]) => y[1] = 0
                  /\ y[2] => y[3]}}

\* The helper installed set-UID root, run by `c`.
SetUidRoot(c) ==
    [ruid |-> c.uid, euid |-> 0, suid |-> 0,
     rgid |-> c.gid, egid |-> c.gid, sgid |-> c.gid,
     groups |-> {c.gid}, cap_setuid |-> TRUE, cap_setgid |-> TRUE]

\* Lines 1272-1311: the environment is captured in env_p and cleared.
InitStart ==
    /\ pc = "self_discovery"
    /\ status = RUNNING
    /\ env_in \in Snapshots
    /\ env_i = 1
    /\ environ = <<>>
    /\ prog_path = NULL
    /\ dirs = <<>>
    /\ www = NULLREC
    /\ pwd = NULLREC
    /\ grp = NULLREC
    /\ script_path = NULL
    /\ script_fs = NULLREC
    /\ pw_dir = NULL
    /\ caller = [uid |-> 33, gid |-> 33]
    /\ creds = SetUidRoot(caller)
    /\ done = {}
    /\ sys_ok = TRUE
    /\ world_ok = TRUE
    /\ insecure = {}
    /\ cgi_handler_fs = NULLREC
    /\ dirname_inplace \in BOOLEAN
    /\ arg = <<>>
    /\ res = <<>>

\* Lines 1319-1343: prog_path is found by realpath and stat'ed.
SelfDiscovery ==
    /\ pc = "self_discovery" /\ status = RUNNING
    /\ \E p \in {NULL} \cup ProgPool, st \in StatOut :
        LET out == IF p = NULL THEN EX_UNAVAILABLE
                   ELSE IF ~(Len(p) > 0) THEN EX_UNAVAILABLE
                   ELSE IF ~(Len(p) <= CR_PATH_MAX) THEN EX_UNAVAILABLE
                   ELSE ASS_STAT(st)
        IN  /\ Goto(out, "sanitise")
            /\ prog_path' = p
            /\ sys_ok' = (sys_ok /\ p # NULL /\ st # NULLREC)
            /\ world_ok' = world_ok
    /\ UNCHANGED <<envVars, dirs, idVars, scriptVars, credVars, done,
                   cgi_handler_fs, fixedVars, insecure>>

\* Lines 1351-1383: one pass through the body of the loop.  An entry of
\* length 0 takes `continue` before env_p is advanced.  (Line 1374 cuts
\* the captured entry at its "="; no later statement reads the entry.)
SanitiseEntry ==
    /\ pc = "sanitise" /\ status = RUNNING
    /\ env_i <= Len(env_in)
    /\ LET entry == env_in[env_i]
       IN  IF Len(entry) = 0
           THEN UNCHANGED <<status, env_i, environ, sys_ok>>
           ELSE IF KeepsEntry(entry)
           THEN \E ok \in BOOLEAN :
                   /\ status' = IF ok THEN RUNNING ELSE EX_UNAVAILABLE
                   /\ environ' = IF ok
                                 THEN SetEnv(environ, NameOf(entry),
                                             ValueOf(entry), 0)
                                 ELSE environ
                   /\ env_i' = IF ok THEN env_i + 1 ELSE env_i
                   /\ sys_ok' = (sys_ok /\ ok)
           ELSE /\ env_i' = env_i + 1
                /\ UNCHANGED <<status, environ, sys_ok>>
    /\ UNCHANGED <<pc, env_in, prog_path, dirs, idVars, scriptVars, credVars,
                   done, world_ok, insecure, cgi_handler_fs, fixedVars>>

\* Lines 1351 and 1385: the loop ends and PATH is set.
SetPath ==
    /\ pc = "sanitise" /\ status = RUNNING
    /\ ~(env_i <= Len(env_in))
    /\ \E ok \in BOOLEAN :
        /\ Goto(IF ok THEN RUNNING ELSE EX_UNAVAILABLE, "chdir")
        /\ environ' = IF ok THEN SetEnv(environ, "PATH", SECURE_PATH, 1)
                      ELSE environ
        /\ done' = IF ok THEN done \cup {"sanitise"} ELSE done
        /\ sys_ok' = (sys_ok /\ ok)
    /\ UNCHANGED <<env_in, env_i, prog_path, dirs, idVars, scriptVars,
                   credVars, world_ok, insecure, cgi_handler_fs, fixedVars>>

\* Line 1394.
Chdir ==
    /\ pc = "chdir" /\ status = RUNNING
    /\ \E ok \in BOOLEAN :
        /\ Goto(IF ok THEN RUNNING ELSE EX_UNAVAILABLE, "canon_handler")
        /\ done' = IF ok THEN done \cup {"chdir"} ELSE done
        /\ sys_ok' = (sys_ok /\ ok)
    /\ UNCHANGED <<envVars, prog_path, dirs, idVars, scriptVars, credVars,
                   world_ok, insecure, cgi_handler_fs, fixedVars>>

\* Lines 1403-1407: CGI_HANDLER is not empty and canonical.
CanonHandler ==
    /\ pc = "canon_handler" /\ status = RUNNING
    /\ \E o \in RealpathOracle :
        LET out == FirstFailure(<<
                       ASS_CONF_NEMPTY(CGI_HANDLER),
                       ASS_CANON(CGI_HANDLER, TRUE, dirname_inplace, o).status>>)
        IN  /\ Goto(out, "excl_handler")
            /\ sys_ok' = (sys_ok /\ RealpathCallsOk(o))
            /\ world_ok' = (world_ok /\ RealpathAsInstalled(o))
    /\ done' = done \cup {"path_max"}
    /\ UNCHANGED <<envVars, prog_path, dirs, idVars, scriptVars, credVars,
                   cgi_handler_fs, fixedVars, insecure>>

\* Call sites whose self-check goes on at the privilege drop, past the
\* checks of the script's owner: C7 must tell them from the code's.
ExclSiteSkipsOwner ==
    CASE pc = "excl_handler" ->
             [uid |-> 0, gid |-> 0, start |-> CGI_HANDLER, stop |-> NULL,
              next |-> "check_handler"]
      [] pc = "excl_base" ->
             [uid |-> 0, gid |-> 0, start |-> SCRIPT_BASE_DIR, stop |-> NULL,
              next |-> "check_base_dir"]
      [] pc = "excl_prog" ->
             [uid |-> 0, gid |-> 0, start |-> prog_path, stop |-> NULL,
              next |-> "setgroups"]
      [] pc = "excl_script" ->
             [uid |-> script_fs.st_uid, gid |-> script_fs.st_gid,
              start |-> script_path, stop |-> pw_dir, next |-> "excl_home"]
      [] pc = "excl_home" ->
             [uid |-> 0, gid |-> 0, start |-> pw_dir, stop |-> NULL,
              next |-> "check_script_mode"]

\* The calls of is_excl_owner_f in main(): lines 1409, 1431, 1475, 1598-1599
\* and 1600, each with its arguments and the statement that follows it.
ExclPcs == {"excl_handler", "excl_base", "excl_prog", "excl_script", "excl_home"}

ExclSite ==
    CASE pc = "excl_handler" ->
             [uid |-> 0, gid |-> 0, start |-> CGI_HANDLER, stop |-> NULL,
              next |-> "check_handler"]
      [] pc = "excl_base" ->
             [uid |-> 0, gid |-> 0, start |-> SCRIPT_BASE_DIR, stop |-> NULL,
              next |-> "check_base_dir"]
      [] pc = "excl_prog" ->
             [uid |-> 0, gid |-> 0, start |-> prog_path, stop |-> NULL,
              next |-> "self_check"]
      [] pc = "excl_script" ->
             [uid |-> script_fs.st_uid, gid |-> script_fs.st_gid,
              start |-> script_path, stop |-> pw_dir, next |-> "excl_home"]
      [] pc = "excl_home" ->
             [uid |-> 0, gid |-> 0, start |-> pw_dir, stop |-> NULL,
              next |-> "check_script_mode"]

\* A read through pwd when pwd is NULL (lines 1585, 1588, 1599, 1600) may
\* end the process with a signal.
NullReadOut(p) == IF p = NULLREC THEN {KILLED, RUNNING} ELSE {RUNNING}

\* is_excl_owner_f, lines 1166-1170: dir_names builds the list; it returns
\* NULL if an allocation fails.  The arguments of lines 1599 and 1600 are
\* read through pwd.
ExclOwnerBegin ==
    /\ pc \in ExclPcs /\ status = RUNNING
    /\ dirs = <<>>
    /\ \E mem_ok \in BOOLEAN,
          read \in (IF pc \in {"excl_script", "excl_home"}
                    THEN NullReadOut(pwd) ELSE {RUNNING}) :
        /\ status' = FirstFailure(<<read,
                                    IF mem_ok THEN RUNNING ELSE EX_OSERR>>)
        /\ dirs' = IF read = RUNNING /\ mem_ok
                   THEN dir_names(ExclSite.start, ExclSite.stop)
                   ELSE <<>>
        /\ sys_ok' = (sys_ok /\ (read = RUNNING => mem_ok))
    /\ UNCHANGED <<pc, envVars, prog_path, idVars, scriptVars, credVars, done,
                   world_ok, insecure, cgi_handler_fs, fixedVars>>

\* Lines 1178-1181: the checks made on one directory of the list.
ExclOwnerChecks(st, uid, gid) ==
    FirstFailure(<<ASS_STAT(st),
                   After(st, ASS_UID(st, uid)),
                   After(st, ASS_GID(st, gid)),
                   After(st, ASS_NWOTH(st))>>)

\* is_excl_owner_f, lines 1172-1187: one pass through the loop; after the
\* last directory the function returns.
ExclOwnerStep ==
    /\ pc \in ExclPcs /\ status = RUNNING
    /\ dirs # <<>>
    /\ \E st \in DirStatOut :
        LET out  == ExclOwnerChecks(st, ExclSite.uid, ExclSite.gid)
            last == Len(dirs) = 1
        IN  /\ status' = out
            /\ pc' = IF out = RUNNING /\ last THEN ExclSite.next ELSE pc
            /\ dirs' = IF out # RUNNING THEN dirs
                       ELSE Tail(dirs)
            /\ done' = IF out = RUNNING /\ last THEN done \cup {pc} ELSE done
            /\ sys_ok' = (sys_ok /\ st # NULLREC)
            /\ world_ok' = (world_ok /\ (st # NULLREC =>
                               OwnedBy(st, ExclSite.uid, ExclSite.gid)))
            /\ insecure' = IF st # NULLREC
                              /\ ~OwnedBy(st, ExclSite.uid, ExclSite.gid)
                           THEN insecure \cup {pc} ELSE insecure
    /\ UNCHANGED <<envVars, prog_path, idVars, scriptVars, credVars,
                   cgi_handler_fs, fixedVars>>

\* Lines 1413-1419: the checks made on CGI_HANDLER's metadata.
HandlerChecks(st) ==
    FirstFailure(<<ASS_ISREG(st), ASS_UID(st, 0), ASS_GID(st, 0),
                   ASS_NWOTH(st), ASS_NSUID(st), ASS_NSGID(st),
                   ASS_IXOTH(st)>>)

\* Lines 1411-1419.
CheckHandler ==
    /\ pc = "check_handler" /\ status = RUNNING
    /\ \E st \in StatOut :
        /\ Goto(FirstFailure(<<ASS_STAT(st), After(st, HandlerChecks(st))>>),
                "date_format")
        /\ cgi_handler_fs' = st
        /\ sys_ok' = (sys_ok /\ st # NULLREC)
        /\ world_ok' = (world_ok /\ (st # NULLREC =>
                           S_ISREG(st.st_mode) /\ OwnedBy(st, 0, 0)
                           /\ BitAnd(st.st_mode, S_ISUID + S_ISGID) = 0
                           /\ BitAnd(st.st_mode, S_IXOTH) # 0))
    /\ UNCHANGED <<envVars, prog_path, dirs, idVars, scriptVars, credVars,
                   done, fixedVars, insecure>>

NextStart ==
    \/ SelfDiscovery
    \/ SanitiseEntry
    \/ SetPath
    \/ Chdir
    \/ CanonHandler
    \/ ExclOwnerBegin
    \/ ExclOwnerStep
    \/ CheckHandler

SpecStart == InitStart /\ [][NextStart]_vars

\* The process is scheduled as long as it has a statement to execute: the
\* helper is a single thread that never waits.
SpecStartFair == SpecStart /\ WF_vars(NextStart)

-----------------------------------------------------------------------------
(* Functions and system calls used by main() from line 1421 on.            *)

Chars(str) == {CharAt(str, i) : i \in 0..(Len(str) - 1)}

\* The printable characters in the order of their codes: 32 to 95, and 97
\* to 126.
AsciiLow ==
    " !\"#$%&'()*+,-./0123456789:;<=>?@ABCDEFGHIJKLMNOPQRSTUVWXYZ[\\]^_"
AsciiHigh == "abcdefghijklmnopqrstuvwxyz{|}~"

\* (int) (char) c, lines 1235 and 1247.
Code(c) ==
    IF c \in Chars(AsciiLow)
    THEN 31 + CHOOSE i \in 1..Len(AsciiLow) : CharAt(AsciiLow, i - 1) = c
    ELSE 96 + CHOOSE i \in 1..Len(AsciiHigh) : CharAt(AsciiHigh, i - 1) = c

\* The printable characters.
Printable == Chars(AsciiLow) \cup Chars(AsciiHigh)

\* The characters of codes 65-90, 97-122 and 48-57.
UpperCase == {c \in Printable : 65 <= Code(c) /\ Code(c) <= 90}
LowerCase == {c \in Printable : 97 <= Code(c) /\ Code(c) <= 122}
Digits == {c \in Printable : 48 <= Code(c) /\ Code(c) <= 57}

\* Lines 1238-1242 and 1250-1260: the characters a name may start with and
\* go on with.
PortableFirst ==
    UpperCase \cup LowerCase \cup {c \in Printable : Code(c) = 95}
PortableRest ==
    Digits \cup UpperCase \cup LowerCase
           \cup {c \in Printable : Code(c) \in {45, 46, 95}}

\* A validator that lets a name start with any character it may go on
\* with: C18 must tell it from the code's.
is_portable_name_any_first(str) ==
    IF Len(str) = 0 THEN -1
    ELSE IF \E i \in 0..(Len(str) - 1) : CharAt(str, i) \notin PortableRest
         THEN -1
    ELSE 0

\* is_portable_name, lines 1230-1264: 0 or -1.
is_portable_name(str) ==
    IF Len(str) = 0 THEN -1
    ELSE IF CharAt(str, 0) \notin PortableFirst THEN -1
    ELSE IF \E i \in 1..(Len(str) - 1) : CharAt(str, i) \notin PortableRest
         THEN -1
    ELSE 0

\* ASS_PORTNAME, lines 603-604.
ASS_PORTNAME(name) ==
    IF is_portable_name(name) = 0 THEN RUNNING ELSE EX_UNAVAILABLE

\* What the byte after a string's null byte may hold.
BeyondOut == {"/", NUL, "x"}

\* sub[strlen(super)], line 1202: beyond sub's null byte the read yields
\* whatever the memory holds.
SepOf(sub, super, beyond) ==
    IF Len(super) <= Len(sub) THEN CharAt(sub, Len(super)) ELSE beyond

\* is_subdir_f, lines 1201-1205: RUNNING if it returns, or the exit status.
is_subdir_f(sub, super, beyond) ==
    LET sep == SepOf(sub, super, beyond)
    IN  IF STRSTARTW(sub, super) \/ sep = "/" \/ sep = NUL
        THEN RUNNING ELSE EX_UNAVAILABLE

\* panic() called with a "%s" whose argument is not a string (lines 1004,
\* 1005 and 1554): vfprintf reads through it, which ends the process with
\* a signal, or prints and lets panic() exit with `code`.
BadFormatOut(code) == {KILLED, code}

\* getenv_f, lines 1002-1007: the value, which is not empty, or NULL where
\* the function panics.
getenv_f(env, var) ==
    IF var \in DOMAIN env /\ STRNE(env[var], "") THEN env[var] ELSE NULL

\* setgroups(0, groups) succeeds only with the privilege to set GIDs.
SetGroupsOut(cr) == IF cr.cap_setgid THEN {0, -1} ELSE {-1}

\* setgid(gid): with the privilege all three GIDs are set, without it the
\* effective GID may become the real or the saved one.
SetGidOut(cr, gid) ==
    IF cr.cap_setgid \/ gid \in {cr.rgid, cr.sgid} THEN {0, -1} ELSE {-1}

AfterSetGid(cr, gid) ==
    IF cr.cap_setgid
    THEN [cr EXCEPT !.rgid = gid, !.egid = gid, !.sgid = gid]
    ELSE [cr EXCEPT !.egid = gid]

\* setuid(uid): with the privilege all three UIDs are set, and the
\* privileges are lost unless uid is 0; without it the effective UID may
\* become the real or the saved one.
SetUidOut(cr, uid) ==
    IF cr.cap_setuid \/ uid \in {cr.ruid, cr.suid} THEN {0, -1} ELSE {-1}

AfterSetUid(cr, uid) ==
    IF cr.cap_setuid
    THEN [cr EXCEPT !.ruid = uid, !.euid = uid, !.suid = uid,
                    !.cap_setuid = (uid = 0), !.cap_setgid = (uid = 0)]
    ELSE [cr EXCEPT !.euid = uid]

-----------------------------------------------------------------------------
(* main(), lines 1421-1495: the rest of the configuration checks, the      *)
(* self-check and the script's path.                                       *)

\* Lines 1351-1385 applied to a whole snapshot when every setenv succeeds.
RECURSIVE SanitiseFrom(_, _, _)
SanitiseFrom(snapshot, i, env) ==
    IF i > Len(snapshot) THEN SetEnv(env, "PATH", SECURE_PATH, 1)
    ELSE IF KeepsEntry(snapshot[i])
         THEN SanitiseFrom(snapshot, i + 1,
                           SetEnv(env, NameOf(snapshot[i]),
                                  ValueOf(snapshot[i]), 0))
    ELSE SanitiseFrom(snapshot, i + 1, env)

\* The requests: PATH_TRANSLATED and DOCUMENT_ROOT as the web server sets
\* them, or not at all.
PathTranslatedPool ==
    {"PATH_TRANSLATED=/srv/home/alice/app.php",
     "PATH_TRANSLATED=/srv/home/alice/app.txt",
     "PATH_TRANSLATED=/srv/homeevil/x.php",
     "PATH_TRANSLATED=/tmp/evil/x.php",
     "PATH_TRANSLATED=/opt/evil.php"}
DocumentRootPool ==
    {"DOCUMENT_ROOT=/srv/home/alice", "DOCUMENT_ROOT=/var/www"}
Requests ==
    {<<>>} \cup {<<p>> : p \in PathTranslatedPool}
           \cup {<<p, "DOCUMENT_ROOT=/srv/home/alice">> : p \in PathTranslatedPool}
           \cup {<<"PATH_TRANSLATED=/srv/home/alice/app.php", d>> :
                    d \in DocumentRootPool}

\* A CGI_HANDLER as lines 1402-1419 are meant to accept it.
AcceptedHandler == [st_uid |-> 0, st_gid |-> 0, st_mode |-> S_IFREG + 488 + S_IXOTH]

\* Line 1421 is entered: the environment is sanitised, the working
\* directory changed and CGI_HANDLER checked.
InitMain ==
    /\ pc = "canon_base"
    /\ status = RUNNING
    /\ env_in \in Requests
    /\ env_i = Len(env_in) + 1
    /\ environ = SanitiseFrom(env_in, 1, <<>>)
    /\ prog_path \in ProgPool
    /\ dirs = <<>>
    /\ www = NULLREC
    /\ pwd = NULLREC
    /\ grp = NULLREC
    /\ script_path = NULL
    /\ script_fs = NULLREC
    /\ pw_dir = NULL
    /\ caller \in Callers
    /\ creds \in InitCreds(caller)
    /\ done = {"sanitise", "chdir", "path_max", "excl_handler"}
    /\ sys_ok = TRUE
    /\ world_ok = TRUE
    /\ insecure = {}
    /\ cgi_handler_fs = AcceptedHandler
    /\ dirname_inplace \in BOOLEAN
    /\ arg = <<>>
    /\ res = <<>>

\* Lines 1422-1429: DATE_FORMAT and SCRIPT_BASE_DIR are not empty and
\* SCRIPT_BASE_DIR is canonical.
CanonBase ==
    /\ pc = "canon_base" /\ status = RUNNING
    /\ \E o \in RealpathOracle :
        LET out == FirstFailure(<<
                       ASS_CONF_NEMPTY(DATE_FORMAT),
                       ASS_CONF_NEMPTY(SCRIPT_BASE_DIR),
                       ASS_CANON(SCRIPT_BASE_DIR, TRUE, dirname_inplace,
                                 o).status>>)
        IN  /\ Goto(out, "excl_base")
            /\ sys_ok' = (sys_ok /\ RealpathCallsOk(o))
            /\ world_ok' = (world_ok /\ RealpathAsInstalled(o) /\ o.dir1)
    /\ UNCHANGED <<envVars, prog_path, dirs, idVars, scriptVars, credVars,
                   done, cgi_handler_fs, fixedVars, insecure>>

\* Lines 1433-1446: SCRIPT_BASE_DIR's metadata, SCRIPT_SUFFIX, SECURE_PATH.
CheckBaseDir ==
    /\ pc = "check_base_dir" /\ status = RUNNING
    /\ \E st \in StatOut :
        LET out == FirstFailure(<<
                       ASS_STAT(st),
                       After(st, FirstFailure(<<ASS_ISDIR(st), ASS_UID(st, 0),
                                                ASS_GID(st, 0), ASS_NWOTH(st)>>)),
                       ASS_CONF_NEMPTY(SCRIPT_SUFFIX),
                       IF Len(SECURE_PATH) > CR_SECURE_PATH_MAX
                       THEN EX_CONFIG ELSE RUNNING>>)
        IN  /\ Goto(out, "www_lookup")
            /\ done' = IF out = RUNNING THEN done \cup {"config"} ELSE done
            /\ sys_ok' = (sys_ok /\ st # NULLREC)
            /\ world_ok' = (world_ok /\ (st # NULLREC =>
                               S_ISDIR(st.st_mode) /\ OwnedBy(st, 0, 0)))
    /\ UNCHANGED <<envVars, prog_path, dirs, idVars, scriptVars, credVars,
                   cgi_handler_fs, fixedVars, insecure>>

\* getpwnam(WWW_USER) and getgrnam(WWW_GROUP): the web server's account,
\* which an installation may also take from the range of the script owners.
WwwPwdOut ==
    {NULLREC} \cup {[pw_name |-> WWW_USER, pw_uid |-> u, pw_gid |-> 33] :
                       u \in {33, 1000}}
WwwGrpOut ==
    {NULLREC} \cup {[gr_name |-> WWW_GROUP, gr_gid |-> g] : g \in {33, 50000}}

\* Lines 1448-1463: WWW_USER and WWW_GROUP are looked up; pwd and grp are
\* set to NULL once www_uid and www_gid are taken from them.
WwwLookup ==
    /\ pc = "www_lookup" /\ status = RUNNING
    /\ \E p \in WwwPwdOut, g \in WwwGrpOut :
        LET user  == FirstFailure(<<
                         ASS_CONF_NEMPTY(WWW_USER), ASS_PORTNAME(WWW_USER),
                         IF p = NULLREC THEN EX_NOUSER ELSE RUNNING>>)
            group == FirstFailure(<<
                         ASS_CONF_NEMPTY(WWW_GROUP), ASS_PORTNAME(WWW_GROUP),
                         IF g = NULLREC THEN EX_NOUSER ELSE RUNNING>>)
            out   == FirstFailure(<<user, group>>)
        IN  /\ Goto(out, "excl_prog")
            /\ www' = IF out = RUNNING
                      THEN [uid |-> p.pw_uid, gid |-> g.gr_gid] ELSE www
            /\ pwd' = IF out = RUNNING \/ user # RUNNING THEN NULLREC ELSE p
            /\ grp' = NULLREC
            /\ sys_ok' = (sys_ok /\ p # NULLREC
                                 /\ (user = RUNNING => g # NULLREC))
    /\ UNCHANGED <<envVars, prog_path, dirs, scriptVars, credVars, done,
                   world_ok, insecure, cgi_handler_fs, fixedVars>>

\* Checks of the executable that leave out the world-execute bit: C16 must
\* tell them from the code's.
SelfChecksNoXoth(st) ==
    FirstFailure(<<ASS_ISREG(st), ASS_UID(st, 0), ASS_GID(st, 0),
                   ASS_NWOTH(st)>>)

\* Lines 1479-1483: the checks made on the executable's metadata.
SelfChecks(st) ==
    FirstFailure(<<ASS_ISREG(st), ASS_UID(st, 0), ASS_GID(st, 0),
                   ASS_NWOTH(st), ASS_NXOTH(st)>>)

\* Lines 1477-1483: the executable's own metadata.
SelfCheck ==
    /\ pc = "self_check" /\ status = RUNNING
    /\ \E st \in StatOut :
        LET out == FirstFailure(<<ASS_STAT(st), After(st, SelfChecks(st))>>)
        IN  /\ Goto(out, "get_script_path")
            /\ done' = IF out = RUNNING THEN done \cup {"self_check"} ELSE done
            /\ sys_ok' = (sys_ok /\ st # NULLREC)
            /\ world_ok' = (world_ok /\ (st # NULLREC =>
                               /\ S_ISREG(st.st_mode) /\ OwnedBy(st, 0, 0)
                               /\ BitAnd(st.st_mode, S_IXOTH) = 0))
            /\ insecure' = insecure \cup
                   (IF st # NULLREC /\ ~S_ISREG(st.st_mode)
                    THEN {"self_check_type"} ELSE {}) \cup
                   (IF st # NULLREC /\ ~(OwnedBy(st, 0, 0)
                                         /\ BitAnd(st.st_mode, S_IXOTH) = 0)
                    THEN {"self_check"} ELSE {})
    /\ UNCHANGED <<envVars, prog_path, dirs, idVars, scriptVars, credVars,
                   cgi_handler_fs, fixedVars>>

\* Lines 1491-1495: PATH_TRANSLATED is read and must be canonical.  The
\* path checked is the buffer getenv returned, inside the environment.
GetScriptPath ==
    /\ pc = "get_script_path" /\ status = RUNNING
    /\ LET path_translated_e == getenv_f(environ, "PATH_TRANSLATED")
       IN  IF path_translated_e = NULL
           THEN /\ status' \in BadFormatOut(EX_UNAVAILABLE)
                /\ UNCHANGED <<pc, environ, script_path, done, histVars>>
           ELSE \E o \in RealpathOracle :
                   \E r \in {ASS_CANON(path_translated_e, FALSE,
                                        dirname_inplace, o)} :
                       /\ Goto(r.status, "stat_script")
                       /\ environ' = [environ EXCEPT
                                          !["PATH_TRANSLATED"] = r.path]
                       /\ script_path' = r.real
                       /\ done' = IF r.status = RUNNING
                                  THEN done \cup {"script_path"} ELSE done
                       /\ sys_ok' = (sys_ok /\ RealpathCallsOk(o))
                       /\ world_ok' = (world_ok /\ RealpathAsInstalled(o)
                                                /\ ~o.dir1
                                                /\ o.dir2 = dirname_inplace)
    /\ UNCHANGED <<env_in, env_i, prog_path, dirs, idVars, script_fs, pw_dir,
                   credVars, cgi_handler_fs, fixedVars, insecure>>

-----------------------------------------------------------------------------
(* main(), lines 1503-1574: the script's owner, the privilege drop and the *)
(* check of the caller.                                                    *)

\* Checks of the script's IDs that end with a permission error: C13 must
\* tell them from the code's.
ScriptIdChecksNoPerm(st) ==
    FirstFailure(<<
        IF st.st_uid # 0 THEN RUNNING ELSE EX_NOPERM,
        IF st.st_gid # 0 THEN RUNNING ELSE EX_NOPERM,
        IF st.st_uid >= SCRIPT_MIN_UID /\ st.st_uid <= SCRIPT_MAX_UID
        THEN RUNNING ELSE EX_NOPERM,
        IF st.st_gid >= SCRIPT_MIN_GID /\ st.st_gid <= SCRIPT_MAX_GID
        THEN RUNNING ELSE EX_NOPERM>>)

\* Range checks that test the UID twice and the GID never: C5 must tell
\* them from the code's.
ScriptIdChecksUidTwice(st) ==
    FirstFailure(<<
        IF st.st_uid # 0 THEN RUNNING ELSE EX_UNAVAILABLE,
        IF st.st_gid # 0 THEN RUNNING ELSE EX_UNAVAILABLE,
        IF st.st_uid >= SCRIPT_MIN_UID /\ st.st_uid <= SCRIPT_MAX_UID
        THEN RUNNING ELSE EX_UNAVAILABLE,
        IF st.st_uid >= SCRIPT_MIN_GID /\ st.st_uid <= SCRIPT_MAX_GID
        THEN RUNNING ELSE EX_UNAVAILABLE>>)

\* Lines 1506-1515.
ScriptIdChecks(st) ==
    FirstFailure(<<
        IF st.st_uid # 0 THEN RUNNING ELSE EX_UNAVAILABLE,
        IF st.st_gid # 0 THEN RUNNING ELSE EX_UNAVAILABLE,
        IF st.st_uid >= SCRIPT_MIN_UID /\ st.st_uid <= SCRIPT_MAX_UID
        THEN RUNNING ELSE EX_UNAVAILABLE,
        IF st.st_gid >= SCRIPT_MIN_GID /\ st.st_gid <= SCRIPT_MAX_GID
        THEN RUNNING ELSE EX_UNAVAILABLE>>)

\* Lines 1503-1515: the script's metadata, its UID and its GID.  (Where
\* dirname writes to its argument, path_max has cut script_path down to the
\* script's directory.)
StatScript ==
    /\ pc = "stat_script" /\ status = RUNNING
    /\ \E st \in ScriptStatOut :
        LET out == FirstFailure(<<
                       ASS_STAT(st),
                       After(st, ASS_ISREG(st)),
                       After(st, ScriptIdChecks(st))>>)
        IN  /\ Goto(out, "owner_lookup")
            /\ script_fs' = st
            /\ sys_ok' = (sys_ok /\ st # NULLREC)
            /\ world_ok' = (world_ok /\ (st # NULLREC =>
                               /\ S_ISREG(st.st_mode) = ~dirname_inplace
                               /\ BitAnd(st.st_mode, S_IWOTH + S_ISUID + S_ISGID) = 0
                               /\ st.st_uid \in SCRIPT_MIN_UID..SCRIPT_MAX_UID
                               /\ st.st_gid \in SCRIPT_MIN_GID..SCRIPT_MAX_GID))
    /\ UNCHANGED <<envVars, prog_path, dirs, idVars, script_path, pw_dir,
                   credVars, done, cgi_handler_fs, fixedVars, insecure>>

\* getpwuid(uid) and getgrgid(gid).
OwnerNames == {"alice", "al ice"}
GroupNames == {"alice", "9lives"}
PwdOut(uid) ==
    {NULLREC} \cup {[pw_name |-> n, pw_uid |-> uid, pw_gid |-> g] :
                       n \in OwnerNames, g \in {999, 50000}}
GrpOut(gid) ==
    {NULLREC} \cup {[gr_name |-> n, gr_gid |-> gid] : n \in GroupNames}

\* Lines 1517-1525: the owner's records, names and primary group.
OwnerLookup ==
    /\ pc = "owner_lookup" /\ status = RUNNING
    /\ \E p \in PwdOut(script_fs.st_uid), g \in GrpOut(script_fs.st_gid) :
        LET user  == FirstFailure(<<
                         IF p = NULLREC THEN EX_NOUSER ELSE RUNNING,
                         After(p, ASS_PORTNAME(p.pw_name))>>)
            group == FirstFailure(<<
                         IF g = NULLREC THEN EX_NOUSER ELSE RUNNING,
                         After(g, ASS_PORTNAME(g.gr_name))>>)
            out   == FirstFailure(<<
                         user, group,
                         After(p, IF script_fs.st_gid = p.pw_gid
                                  THEN RUNNING ELSE EX_UNAVAILABLE)>>)
        IN  /\ Goto(out, "setgroups")
            /\ pwd' = p
            /\ grp' = IF user = RUNNING THEN g ELSE grp
            /\ done' = IF out = RUNNING THEN done \cup {"owner"} ELSE done
            /\ sys_ok' = (sys_ok /\ p # NULLREC
                                 /\ (user = RUNNING => g # NULLREC))
            /\ world_ok' = (world_ok /\ user = RUNNING /\ group = RUNNING
                                     /\ script_fs.st_gid = p.pw_gid)
    /\ UNCHANGED <<envVars, prog_path, dirs, www, scriptVars, credVars,
                   cgi_handler_fs, fixedVars, insecure>>

\* A clearing of the groups whose failure is not looked at: C20 must tell it
\* from the code's.
SetGroupsUnchecked ==
    /\ pc = "setgroups" /\ status = RUNNING
    /\ \E ret \in SetGroupsOut(creds) :
        /\ Goto(RUNNING, "setgid")
        /\ creds' = IF ret = 0 THEN [creds EXCEPT !.groups = {}] ELSE creds
        /\ done' = IF ret = 0 THEN done \cup {"setgroups"} ELSE done
        /\ sys_ok' = (sys_ok /\ ret = 0)
    /\ UNCHANGED <<envVars, prog_path, dirs, idVars, scriptVars, caller,
                   world_ok, insecure, cgi_handler_fs, fixedVars>>

\* Lines 1546-1548: the supplementary groups are cleared.
SetGroups ==
    /\ pc = "setgroups" /\ status = RUNNING
    /\ \E ret \in SetGroupsOut(creds) :
        /\ Goto(IF ret # 0 THEN EX_OSERR ELSE RUNNING, "setgid")
        /\ creds' = IF ret = 0 THEN [creds EXCEPT !.groups = {}] ELSE creds
        /\ done' = IF ret = 0 THEN done \cup {"setgroups"} ELSE done
        /\ sys_ok' = (sys_ok /\ ret = 0)
    /\ UNCHANGED <<envVars, prog_path, dirs, idVars, scriptVars, caller,
                   world_ok, insecure, cgi_handler_fs, fixedVars>>

\* Lines 1551-1552.
SetGid ==
    /\ pc = "setgid" /\ status = RUNNING
    /\ \E ret \in SetGidOut(creds, script_fs.st_gid) :
        /\ Goto(IF ret # 0 THEN EX_OSERR ELSE RUNNING, "setuid")
        /\ creds' = IF ret = 0 THEN AfterSetGid(creds, script_fs.st_gid)
                    ELSE creds
        /\ done' = IF ret = 0 THEN done \cup {"setgid"} ELSE done
        /\ sys_ok' = (sys_ok /\ ret = 0)
    /\ UNCHANGED <<envVars, prog_path, dirs, idVars, scriptVars, caller,
                   world_ok, insecure, cgi_handler_fs, fixedVars>>

\* Lines 1553-1554: the message of ERR_OSERR has a "%s" for the UID.
SetUid ==
    /\ pc = "setuid" /\ status = RUNNING
    /\ \E ret \in SetUidOut(creds, script_fs.st_uid) :
        /\ IF ret # 0
           THEN status' \in BadFormatOut(EX_OSERR) /\ pc' = pc
           ELSE Goto(RUNNING, "probe")
        /\ creds' = IF ret = 0 THEN AfterSetUid(creds, script_fs.st_uid)
                    ELSE creds
        /\ done' = IF ret = 0 THEN done \cup {"setuid"} ELSE done
        /\ sys_ok' = (sys_ok /\ ret = 0)
    /\ UNCHANGED <<envVars, prog_path, dirs, idVars, scriptVars, caller,
                   world_ok, insecure, cgi_handler_fs, fixedVars>>

\* setuid(0) after the drop: it succeeds if the process kept the privilege
\* or a real or saved UID of 0.
ProbeOut(cr) == IF cr.cap_setuid \/ 0 \in {cr.ruid, cr.suid} THEN 0 ELSE -1

\* A probe that panics when setuid(0) fails: C4 must tell it from the code's.
ProbePanicsInverted(ret) == ret = -1

\* Line 1555: the condition under which the probe panics.
ProbePanics(ret) == ret # -1

\* Lines 1555-1560: setuid(0) must fail; pwd and grp are set to NULL.
Probe ==
    /\ pc = "probe" /\ status = RUNNING
    /\ LET ret == ProbeOut(creds)
       IN  /\ Goto(IF ProbePanics(ret) THEN EX_OSERR ELSE RUNNING,
                   "check_caller")
           /\ creds' = IF ret = 0 THEN AfterSetUid(creds, 0) ELSE creds
           /\ pwd' = IF ProbePanics(ret) THEN pwd ELSE NULLREC
           /\ grp' = IF ProbePanics(ret) THEN grp ELSE NULLREC
           /\ done' = IF ProbePanics(ret) THEN done ELSE done \cup {"probe"}
    /\ UNCHANGED <<envVars, prog_path, dirs, www, scriptVars, caller,
                   histVars, cgi_handler_fs, fixedVars>>

\* A check of the caller that looks up the caller's account after the drop
\* (as src/su-php.c, lines 239-244, does before its drop): C17 must tell it
\* from the code's.
CheckCallerByName ==
    /\ pc = "check_caller" /\ status = RUNNING
    /\ LET prog_uid == creds.ruid
           prog_gid == creds.rgid
           out == FirstFailure(<<
                      IF prog_uid # www.uid THEN EX_NOPERM ELSE RUNNING,
                      IF prog_gid # www.gid THEN EX_NOPERM ELSE RUNNING>>)
       IN  /\ Goto(out, "subdir_base")
           /\ done' = IF out = RUNNING THEN done \cup {"caller"} ELSE done
           /\ pwd' = [pw_name |-> WWW_USER, pw_uid |-> prog_uid,
                      pw_gid |-> prog_gid]
    /\ UNCHANGED <<envVars, prog_path, dirs, www, grp, scriptVars, credVars,
                   histVars, cgi_handler_fs, fixedVars>>

\* Lines 1568-1574: getuid() and getgid() are compared with www_uid and
\* www_gid.
CheckCaller ==
    /\ pc = "check_caller" /\ status = RUNNING
    /\ LET prog_uid == creds.ruid
           prog_gid == creds.rgid
           out == FirstFailure(<<
                      IF prog_uid # www.uid THEN EX_NOPERM ELSE RUNNING,
                      IF prog_gid # www.gid THEN EX_NOPERM ELSE RUNNING>>)
       IN  /\ Goto(out, "subdir_base")
           /\ done' = IF out = RUNNING THEN done \cup {"caller"} ELSE done
    /\ UNCHANGED <<envVars, prog_path, dirs, idVars, scriptVars, credVars,
                   histVars, cgi_handler_fs, fixedVars>>

-----------------------------------------------------------------------------
(* main(), lines 1582-1627: the checks of the script's path and the call   *)
(* of the CGI handler.                                                     *)

\* Line 1582.
SubdirBase ==
    /\ pc = "subdir_base" /\ status = RUNNING
    /\ \E beyond \in BeyondOut :
        LET out == is_subdir_f(script_path, SCRIPT_BASE_DIR, beyond)
        IN  /\ Goto(out, "canon_home")
            /\ done' = IF out = RUNNING THEN done \cup {"subdir_base"} ELSE done
    /\ UNCHANGED <<envVars, prog_path, dirs, idVars, scriptVars, credVars,
                   histVars, cgi_handler_fs, fixedVars>>

\* What a read of pwd->pw_dir yields where it does not end the process.
PwDirPool == {"/srv/home/alice", "/srv/home"}

\* Lines 1584-1586: pwd->pw_dir must be canonical.
CanonHome ==
    /\ pc = "canon_home" /\ status = RUNNING
    /\ \E read \in NullReadOut(pwd), dir \in PwDirPool, o \in RealpathOracle :
        \E r \in {ASS_CANON(dir, FALSE, dirname_inplace, o)} :
            /\ Goto(FirstFailure(<<read, r.status>>), "subdir_home")
            /\ pw_dir' = IF read = RUNNING THEN r.path ELSE pw_dir
            /\ sys_ok' = (sys_ok /\ (read = RUNNING => RealpathCallsOk(o)))
            /\ world_ok' = (world_ok /\ (read = RUNNING =>
                               RealpathAsInstalled(o) /\ o.dir1 /\ o.dir2))
    /\ UNCHANGED <<envVars, prog_path, dirs, idVars, script_path, script_fs,
                   credVars, done, cgi_handler_fs, fixedVars, insecure>>

\* Line 1588.
SubdirHome ==
    /\ pc = "subdir_home" /\ status = RUNNING
    /\ \E read \in NullReadOut(pwd), beyond \in BeyondOut :
        LET out == FirstFailure(<<
                       read, is_subdir_f(script_path, pw_dir, beyond)>>)
        IN  /\ Goto(out, "doc_root")
            /\ done' = IF out = RUNNING THEN done \cup {"subdir_home"} ELSE done
    /\ UNCHANGED <<envVars, prog_path, dirs, idVars, scriptVars, credVars,
                   histVars, cgi_handler_fs, fixedVars>>

\* Lines 1590-1596: DOCUMENT_ROOT is read, must be canonical and must hold
\* the script.
DocRoot ==
    /\ pc = "doc_root" /\ status = RUNNING
    /\ LET document_root_e == getenv_f(environ, "DOCUMENT_ROOT")
       IN  IF document_root_e = NULL
           THEN /\ status' \in BadFormatOut(EX_UNAVAILABLE)
                /\ UNCHANGED <<pc, environ, done, histVars>>
           ELSE \E o \in RealpathOracle, beyond \in BeyondOut :
                   \E r \in {ASS_CANON(document_root_e, FALSE,
                                        dirname_inplace, o)} :
                   \E out \in {FirstFailure(<<
                                  r.status,
                                  is_subdir_f(script_path, r.real, beyond)>>)} :
                       /\ Goto(out, "excl_script")
                       /\ environ' = [environ EXCEPT
                                          !["DOCUMENT_ROOT"] = r.path]
                       /\ done' = IF out = RUNNING
                                  THEN done \cup {"doc_root"} ELSE done
                       /\ sys_ok' = (sys_ok /\ RealpathCallsOk(o))
                       /\ world_ok' = (world_ok /\ RealpathAsInstalled(o)
                                                /\ o.dir1 /\ o.dir2)
    /\ UNCHANGED <<env_in, env_i, prog_path, dirs, idVars, scriptVars,
                   credVars, cgi_handler_fs, fixedVars, insecure>>

\* Lines 1602-1604.
CheckScriptMode ==
    /\ pc = "check_script_mode" /\ status = RUNNING
    /\ Goto(FirstFailure(<<ASS_NWOTH(script_fs), ASS_NSUID(script_fs),
                           ASS_NSGID(script_fs)>>), "check_suffix")
    /\ UNCHANGED <<envVars, prog_path, dirs, idVars, scriptVars, credVars,
                   done, histVars, cgi_handler_fs, fixedVars>>

\* Lines 1612-1616.
CheckSuffix ==
    /\ pc = "check_suffix" /\ status = RUNNING
    /\ LET suffix == StrRChr(script_path, ".")
           out == FirstFailure(<<
                      IF suffix = NULL THEN EX_UNAVAILABLE ELSE RUNNING,
                      IF STREQ(suffix, SCRIPT_SUFFIX)
                      THEN RUNNING ELSE EX_UNAVAILABLE>>)
       IN  /\ Goto(out, "exec")
           /\ done' = IF out = RUNNING THEN done \cup {"suffix"} ELSE done
    /\ UNCHANGED <<envVars, prog_path, dirs, idVars, scriptVars, credVars,
                   histVars, cgi_handler_fs, fixedVars>>

\* Line 1624: the argument vector handed to execve, without its NULL end.
args ==
    <<CGI_HANDLER>>

\* Lines 1624-1627: execve replaces the process image or returns.
Exec ==
    /\ pc = "exec" /\ status = RUNNING
    /\ \E ok \in BOOLEAN :
        /\ status' = IF ok THEN EXEC ELSE EX_OSERR
        /\ done' = IF ok THEN done \cup {"exec"} ELSE done
        /\ sys_ok' = (sys_ok /\ ok)
    /\ UNCHANGED <<pc, envVars, prog_path, dirs, idVars, scriptVars, credVars,
                   world_ok, insecure, cgi_handler_fs, fixedVars>>

NextMain ==
    \/ CanonBase
    \/ ExclOwnerBegin
    \/ ExclOwnerStep
    \/ CheckBaseDir
    \/ WwwLookup
    \/ SelfCheck
    \/ GetScriptPath
    \/ StatScript
    \/ OwnerLookup
    \/ SetGroups
    \/ SetGid
    \/ SetUid
    \/ Probe
    \/ CheckCaller
    \/ SubdirBase
    \/ CanonHome
    \/ SubdirHome
    \/ DocRoot
    \/ CheckScriptMode
    \/ CheckSuffix
    \/ Exec

SpecMain == InitMain /\ [][NextMain]_vars

-----------------------------------------------------------------------------
(* main() from its entry, and main() from line 1421 on with CGI_HANDLER    *)
(* accepted.                                                               *)

InitWhole == InitStart \/ InitMain

NextWhole == NextStart \/ NextMain

SpecWhole == InitWhole /\ [][NextWhole]_vars

-----------------------------------------------------------------------------
(* is_subdir_f, lines 1201-1205, applied to bounded strings.               *)

MaxPathLen == 3

PathChars == {"/", "a", "e"}

\* The strings of at most n characters.
RECURSIVE StringsUpTo(_)
StringsUpTo(n) ==
    IF n = 0 THEN {""}
    ELSE StringsUpTo(n - 1)
         \cup {t \o c : t \in StringsUpTo(n - 1), c \in PathChars}

InitSubdir ==
    /\ pc = "is_subdir_f"
    /\ status = RUNNING
    /\ arg \in [sub : StringsUpTo(MaxPathLen), super : StringsUpTo(MaxPathLen),
                 beyond : BeyondOut]
    /\ res = <<>>
    /\ env_in = <<>>
    /\ env_i = 1
    /\ environ = <<>>
    /\ prog_path = NULL
    /\ dirs = <<>>
    /\ www = NULLREC
    /\ pwd = NULLREC
    /\ grp = NULLREC
    /\ script_path = NULL
    /\ script_fs = NULLREC
    /\ pw_dir = NULL
    /\ caller = [uid |-> 33, gid |-> 33]
    /\ creds = SetUidRoot(caller)
    /\ done = {}
    /\ sys_ok = TRUE
    /\ world_ok = TRUE
    /\ insecure = {}
    /\ cgi_handler_fs = NULLREC
    /\ dirname_inplace = FALSE

\* is_subdir_f(sub, super) is called: it returns or ends the process.
CallSubdir ==
    /\ pc = "is_subdir_f" /\ status = RUNNING
    /\ res = <<>>
    /\ res' = <<is_subdir_f(arg.sub, arg.super, arg.beyond)>>
    /\ status' = res'[1]
    /\ UNCHANGED <<pc, envVars, prog_path, dirs, idVars, scriptVars, credVars,
                   done, histVars, cgi_handler_fs, dirname_inplace, arg>>

SpecSubdir == InitSubdir /\ [][CallSubdir]_vars

-----------------------------------------------------------------------------
(* The preprocessor checks of the ID ranges, lines 55-117, applied to      *)
(* bounded integers.                                                       *)

MaxConfigId == 3

\* The values SCRIPT_MIN_UID, SCRIPT_MAX_UID, SCRIPT_MIN_GID and
\* SCRIPT_MAX_GID are defined as.
ConfigIds == 0..MaxConfigId

\* UID_MAX and GID_MAX: not defined by the system's headers (<<>>), or
\* defined as a number.
LimitOut == {<<>>, <<MaxConfigId - 1>>}

\* `#ifdef LIMIT` / `#if VALUE > LIMIT` / `#error`, e.g. lines 59-63:
\* whether the value passes.
WithinLimit(value, limit) == limit = <<>> \/ ~(value > limit[1])

\* Lines 55-73: the checks under `#ifdef SCRIPT_MIN_UID`; line 66 compares
\* SCRIPT_MIN_GID with SCRIPT_MAX_UID.
MinUidChecks(cf) ==
    /\ ~(cf.min_uid < 1)
    /\ WithinLimit(cf.min_uid, cf.uid_max)
    /\ ~(cf.min_gid >= cf.max_uid)

\* Lines 75-93: the checks under `#ifdef SCRIPT_MIN_GID`.
MinGidChecks(cf) ==
    /\ ~(cf.min_gid < 1)
    /\ WithinLimit(cf.min_gid, cf.gid_max)
    /\ ~(cf.min_gid >= cf.max_gid)

\* Lines 95-106: the checks under `#ifdef SCRIPT_MAX_UID`.
MaxUidChecks(cf) ==
    /\ ~(cf.max_uid < 1)
    /\ WithinLimit(cf.max_uid, cf.uid_max)

\* Lines 108-117: the checks under `#ifdef SCRIPT_MAX_GID`.
MaxGidChecks(cf) ==
    /\ ~(cf.max_gid < 1)
    /\ WithinLimit(cf.max_gid, cf.gid_max)

\* Lines 55-117: TRUE if no `#error` is met.
RangeChecks(cf) ==
    /\ MinUidChecks(cf)
    /\ MinGidChecks(cf)
    /\ MaxUidChecks(cf)
    /\ MaxGidChecks(cf)

\* The variables of main() in a specification of one function.
NotInMain ==
    /\ status = RUNNING
    /\ res = <<>>
    /\ env_in = <<>>
    /\ env_i = 1
    /\ environ = <<>>
    /\ prog_path = NULL
    /\ dirs = <<>>
    /\ www = NULLREC
    /\ pwd = NULLREC
    /\ grp = NULLREC
    /\ script_path = NULL
    /\ script_fs = NULLREC
    /\ pw_dir = NULL
    /\ caller = [uid |-> 33, gid |-> 33]
    /\ creds = SetUidRoot(caller)
    /\ done = {}
    /\ sys_ok = TRUE
    /\ world_ok = TRUE
    /\ insecure = {}
    /\ cgi_handler_fs = NULLREC
    /\ dirname_inplace = FALSE

InitConfig ==
    /\ pc = "preprocess"
    /\ arg \in [min_uid : ConfigIds, max_uid : ConfigIds,
                 min_gid : ConfigIds, max_gid : ConfigIds,
                 uid_max : LimitOut, gid_max : LimitOut]
    /\ NotInMain

\* The file is compiled with the configuration `arg`.
Preprocess ==
    /\ pc = "preprocess" /\ res = <<>>
    /\ res' = <<RangeChecks(arg)>>
    /\ UNCHANGED <<pc, status, envVars, prog_path, dirs, idVars, scriptVars,
                   credVars, done, histVars, cgi_handler_fs, dirname_inplace,
                   arg>>

SpecConfig == InitConfig /\ [][Preprocess]_vars

-----------------------------------------------------------------------------
(* is_portable_name, lines 1230-1264, applied to bounded strings.          *)

MaxNameLen == 3

\* Characters at both ends of the ranges that the function tests, and
\* their neighbours.
NameChars ==
    {"@", "A", "Z", "[", "^", "a", "z", "{", "/", "0", "9", ":", "-", ".",
     "_"}

\* The strings of at most n characters of NameChars.
RECURSIVE NamesUpTo(_)
NamesUpTo(n) ==
    IF n = 0 THEN {""}
    ELSE NamesUpTo(n - 1)
         \cup {t \o c : t \in NamesUpTo(n - 1), c \in NameChars}

InitPortable ==
    /\ pc = "is_portable_name"
    /\ arg \in [str : NamesUpTo(MaxNameLen)]
    /\ NotInMain

\* is_portable_name(str) is called.
CallPortable ==
    /\ pc = "is_portable_name" /\ res = <<>>
    /\ res' = <<is_portable_name(arg.str)>>
    /\ UNCHANGED <<pc, status, envVars, prog_path, dirs, idVars, scriptVars,
                   credVars, done, histVars, cgi_handler_fs, dirname_inplace,
                   arg>>

SpecPortable == InitPortable /\ [][CallPortable]_vars

-----------------------------------------------------------------------------
(* dir_names, lines 965-985, applied to bounded paths.                     *)

MaxDepth == 3

\* The canonical absolute paths of at most n components, "/" among them;
\* the start may also be relative, which ends the enumeration at ".".
RECURSIVE AbsPaths(_)
AbsPaths(n) ==
    IF n = 0 THEN {"/"}
    ELSE AbsPaths(n - 1)
         \cup {(IF t = "/" THEN "" ELSE t) \o "/" \o c :
                   t \in AbsPaths(n - 1), c \in {"a", "e"}}

InitDirNames ==
    /\ pc = "dir_names"
    /\ arg \in [start : AbsPaths(MaxDepth) \cup {"a", "a/e", "e/a/e"},
                 stop : {NULL} \cup AbsPaths(MaxDepth)]
    /\ NotInMain

\* dir_names(start, stop) is called with every strdup, malloc succeeding.
CallDirNames ==
    /\ pc = "dir_names" /\ res = <<>>
    /\ res' = <<dir_names(arg.start, arg.stop)>>
    /\ UNCHANGED <<pc, status, envVars, prog_path, dirs, idVars, scriptVars,
                   credVars, done, histVars, cgi_handler_fs, dirname_inplace,
                   arg>>

SpecDirNames == InitDirNames /\ [][CallDirNames]_vars

-----------------------------------------------------------------------------
(* path_max, lines 1081-1102, applied to the limits a system may have.     *)

\* path_max(path) is about to be called: PATH_MAX and what pathconf will
\* return are each indeterminate (-1) or a bound, below, at or above
\* CR_PATH_MAX; the path exists or not.
InitPathMax ==
    /\ pc = "path_max"
    /\ arg \in [limit : {-1, 0, 8, 255, 256, 257, 4096, 8192},
                 pc_path_max : {-1, 0, 8, 255, 256, 257, 4096, 8192},
                 stat_ok : BOOLEAN]
    /\ NotInMain

CallPathMax ==
    /\ pc = "path_max" /\ res = <<>>
    /\ res' = <<path_max_with(arg.limit, arg.stat_ok, arg.pc_path_max)>>
    /\ UNCHANGED <<pc, status, envVars, prog_path, dirs, idVars, scriptVars,
                   credVars, done, histVars, cgi_handler_fs, dirname_inplace,
                   arg>>

SpecPathMax == InitPathMax /\ [][CallPathMax]_vars

-----------------------------------------------------------------------------
(* Properties of the environment, lines 1351-1385.                         *)

\* The sanitiser loop has ended and PATH has been set.
Sanitised == "sanitise" \in done

\* C1: for every incoming snapshot, after the sanitiser loop and the forced
\* PATH assignment the environment is a subset of the snapshot plus
\* PATH=SECURE_PATH, every variable other than PATH matches a pattern of
\* safe_env_vars, no variable matches a pattern of unsafe_env_vars, and PATH
\* equals SECURE_PATH.
C1_SanitisedEnvironment ==
    Sanitised =>
        /\ "PATH" \in DOMAIN environ
        /\ environ["PATH"] = SECURE_PATH
        /\ \A name \in DOMAIN environ :
               /\ ~MatchesAny(EnvEntry(environ, name), unsafe_env_vars)
               /\ name # "PATH" =>
                      /\ EnvEntry(environ, name) \in Range(env_in)
                      /\ MatchesAny(EnvEntry(environ, name), safe_env_vars)

\* The snapshot held a variable of the deny-list and a variable of the
\* allow-list, and the latter has been passed on.
C1_Witness ==
    /\ Sanitised
    /\ "HTTP_PROXY=evil" \in Range(env_in)
    /\ "TZ" \in DOMAIN environ

-----------------------------------------------------------------------------
(* Properties of the CGI_HANDLER checks, lines 1402-1419.                  *)

\* The metadata the validator is to accept: a regular file of UID 0 and
\* GID 0 with the world-execute bit set and the world-write, set-UID and
\* set-GID bits clear.
GoodHandler(st) ==
    /\ S_ISREG(st.st_mode)
    /\ st.st_uid = 0
    /\ st.st_gid = 0
    /\ BitAnd(st.st_mode, S_IXOTH) # 0
    /\ BitAnd(st.st_mode, S_IWOTH) = 0
    /\ BitAnd(st.st_mode, S_ISUID) = 0
    /\ BitAnd(st.st_mode, S_ISGID) = 0

\* CGI_HANDLER was found canonical and inside a chain of directories that
\* passed is_excl_owner_f, and stat has filled cgi_handler_fs.
HandlerExamined ==
    /\ "excl_handler" \in done
    /\ cgi_handler_fs # NULLREC

\* C9: the validator accepts a CGI_HANDLER that is canonical, exists, is a
\* regular file owned by UID 0 and GID 0 inside a root-owned chain of
\* directories that are not world-writable, and whose mode has the
\* world-execute bit set and the world-write, set-UID and set-GID bits
\* clear; it rejects a handler exactly when one of these is violated.
C9_HandlerValidation ==
    HandlerExamined =>
        (status = RUNNING <=> GoodHandler(cgi_handler_fs))

\* A handler of mode 0751 owned by root:root has been examined.
C9_GoodHandlerExamined ==
    /\ HandlerExamined
    /\ GoodHandler(cgi_handler_fs)

-----------------------------------------------------------------------------
(* Properties of is_subdir_f, lines 1201-1205.                             *)

\* is_subdir_f has been called.
SubdirCalled == pc = "is_subdir_f" /\ res # <<>>

\* C6: for all strings sub and super, is_subdir_f(sub, super) lets the run
\* continue if and only if sub equals super or sub starts with super
\* followed by "/"; in every other case it ends the process with exit
\* status 69.
C6_SubdirIff ==
    SubdirCalled =>
        IF arg.sub = arg.super \/ STRSTARTW(arg.sub, arg.super \o "/")
        THEN res[1] = RUNNING
        ELSE res[1] = EX_UNAVAILABLE

\* The call returned for a sub that does not start with super.
C6_EscapeAccepted ==
    /\ SubdirCalled
    /\ ~STRSTARTW(arg.sub, arg.super)
    /\ Len(arg.sub) > Len(arg.super)
    /\ res[1] = RUNNING

-----------------------------------------------------------------------------
(* Properties of main(), lines 1421-1627.                                  *)

\* The request of the happy path, made by the web server's account for a
\* script that another in-range user owns.
HappyRequest ==
    /\ env_in = <<"PATH_TRANSLATED=/srv/home/alice/app.php",
                  "DOCUMENT_ROOT=/srv/home/alice">>
    /\ www # NULLREC => (caller.uid = www.uid /\ caller.gid = www.gid)
    /\ (www # NULLREC /\ script_fs # NULLREC) => script_fs.st_uid # www.uid

\* C2: when the caller's real UID and GID are WWW_USER's and WWW_GROUP's,
\* configuration and self-check are valid, PATH_TRANSLATED names a regular
\* file with the configured suffix inside SCRIPT_BASE_DIR, DOCUMENT_ROOT and
\* its owner's home, owned by an in-range user other than the web server's
\* and by that user's primary group, with a correctly owned chain of
\* directories, and every system call succeeds, the run does not end with
\* an error.  (Stated for a C library whose dirname leaves its argument
\* alone.)
C2_HappyPathReachesExec ==
    (HappyRequest /\ sys_ok /\ world_ok /\ ~dirname_inplace)
        => status \in {RUNNING, EXEC}

\* C3: if setgroups, setgid(script GID) or setuid(script UID) fails, the
\* process ends with exit status 71 at that step.
C3_DropFailureIsOsErr ==
    (pc \in {"setgroups", "setgid", "setuid"} /\ status # RUNNING)
        => status = EX_OSERR

\* The credentials are no longer those the process was started with.
CredsChanged == creds \notin InitCreds(caller)

\* setuid(0) is refused to a process with these credentials.
Dropped(cr) ==
    /\ cr.ruid # 0 /\ cr.euid # 0 /\ cr.suid # 0
    /\ ~cr.cap_setuid

\* C4: after the three drop steps the helper attempts setuid(0); execve is
\* reached only from states in which the attempt failed; if it succeeds the
\* process ends without exec, so from the verified drop on no UID of the
\* process is 0.
C4_ProbeGuardsExec ==
    /\ status = EXEC => "probe" \in done
    /\ "probe" \in done => ({"setgroups", "setgid", "setuid"} \subseteq done
                             /\ Dropped(creds))
    /\ ("setuid" \in done /\ ~Dropped(creds))
           => (pc = "probe" /\ status \in {RUNNING, EX_OSERR})

\* execve has been called by a process that can no longer become root.
C4_Witness ==
    /\ status = EXEC
    /\ "probe" \in done
    /\ creds.euid = script_fs.st_uid

\* The script's UID and GID are in range.
OwnerInRange ==
    /\ script_fs.st_uid > 0
    /\ script_fs.st_gid > 0
    /\ SCRIPT_MIN_UID <= script_fs.st_uid /\ script_fs.st_uid <= SCRIPT_MAX_UID
    /\ SCRIPT_MIN_GID <= script_fs.st_gid /\ script_fs.st_gid <= SCRIPT_MAX_GID

\* C5: setgid and setuid are called only with a script UID and GID that are
\* greater than 0 and inside the UID range and the GID range respectively,
\* for which a user and a group record exist with portable names, the GID
\* being the user's primary GID; for every other (UID, GID) the process ends
\* before any credential change.
C5_DropOnlyToCheckedOwner ==
    /\ CredsChanged => "owner" \in done
    /\ "owner" \in done => OwnerInRange
    /\ ("owner" \in done /\ "probe" \notin done) =>
           /\ pwd # NULLREC /\ grp # NULLREC
           /\ pwd.pw_uid = script_fs.st_uid /\ grp.gr_gid = script_fs.st_gid
           /\ is_portable_name(pwd.pw_name) = 0
           /\ is_portable_name(grp.gr_name) = 0
           /\ pwd.pw_gid = script_fs.st_gid
    /\ "setgid" \in done => creds.egid = script_fs.st_gid
    /\ "setuid" \in done =>
           creds.euid \in {script_fs.st_uid} \cup (IF pc = "probe" THEN {0} ELSE {})

\* The process has taken on the UID and GID of a script's owner.
C5_Witness ==
    /\ "setuid" \in done
    /\ CredsChanged
    /\ creds.euid = 1000
    /\ creds.egid = 50000

\* The script resolver has passed: the script's path is inside
\* SCRIPT_BASE_DIR and DOCUMENT_ROOT and has the suffix.
ResolverPassed == {"subdir_base", "doc_root", "suffix"} \subseteq done

\* C7: the stages run in the order sanitiser, configuration validator,
\* script resolver (containment in SCRIPT_BASE_DIR and DOCUMENT_ROOT, suffix
\* check), owner resolver, privilege dropper, caller check, exec; no
\* credential change happens in a run whose script path fails the
\* base-directory, document-root or suffix check.
C7_DropAfterResolver ==
    /\ CredsChanged => ResolverPassed
    /\ "owner" \in done => ResolverPassed

\* The stages of main() in the order of the code.
Stages ==
    <<"sanitise", "chdir", "excl_handler", "excl_base", "config", "excl_prog",
      "self_check", "script_path", "owner", "setgroups", "setgid", "setuid",
      "probe", "caller", "subdir_base", "subdir_home", "doc_root",
      "excl_script", "excl_home", "suffix", "exec">>

\* C7 as amended: the stages run in the order sanitiser, configuration
\* validator, self-check, canonical script path, owner resolver, privilege
\* dropper (setgroups, setgid, setuid, setuid(0) probe), caller check,
\* containment of the script path in SCRIPT_BASE_DIR, the home directory
\* and DOCUMENT_ROOT, ownership of the directories, suffix check, exec: no
\* stage is performed before the one it follows, and the credentials
\* change only once the owner resolver has passed.
C7_StagesInCodeOrder ==
    /\ \A i \in 2..Len(Stages) : Stages[i] \in done => Stages[i - 1] \in done
    /\ CredsChanged => "owner" \in done
    /\ done \subseteq Range(Stages) \cup {"path_max"}

\* The credentials were changed and the script's path then failed the
\* test of SCRIPT_BASE_DIR.
C7_Witness ==
    /\ CredsChanged
    /\ "caller" \in done
    /\ pc = "subdir_base"
    /\ status = EX_UNAVAILABLE

\* C8: if the real UID of the invoking process is not WWW_USER's UID or its
\* real GID is not WWW_GROUP's GID, the helper ends at or before the caller
\* check and never reaches execve; the caller check passes only for an
\* invoking identity equal to (WWW_USER, WWW_GROUP).
C8_CallerCheck ==
    "caller" \in done => (caller.uid = www.uid /\ caller.gid = www.gid)

\* The steps that read pwd->pw_dir.
PwdReaders == {"canon_home", "subdir_home", "excl_script", "excl_home"}

\* C10: every run ends in a successful execve or in a panic that exits
\* with a status of 66, 67, 69, 70, 71, 77 or 78; no step uses a record
\* that was never set or has been cleared; a failed execve ends in exit 71.
C10_EndsInExecOrPanic ==
    /\ status \in {RUNNING, EXEC} \cup ExitStatuses
    /\ (pc \in PwdReaders /\ status = RUNNING) => pwd # NULLREC
    /\ (pc = "exec" /\ status \notin {RUNNING, EXEC}) => status = EX_OSERR

\* C11: the sanitiser loop terminates for every finite snapshot: an empty
\* entry is skipped by advancing to the next entry, so a run that has
\* entered the loop leaves it (or ends in a panic).
C11_SanitiserTerminates ==
    (pc = "sanitise") ~> (pc # "sanitise" \/ status # RUNNING)

\* The two calls of is_excl_owner_f that check the script's directories.
ChainPcs == {"excl_script", "excl_home"}

\* C12: execve is reached only if the directories from the script's parent
\* up to the owner's home directory were found owned by the script's UID
\* and GID and not world-writable, and those above the home directory up
\* to "/" owned by 0:0 and not world-writable; the home directory that
\* bounds the two chains is the owner's; a directory that fails ends the
\* process with exit status 77.
C12_ScriptTrustChain ==
    /\ status = EXEC => ChainPcs \subseteq done
    /\ pc \in ChainPcs => pwd # NULLREC
    /\ (pc \in ChainPcs /\ status # RUNNING /\ sys_ok) => status = EX_NOPERM

\* The script is a regular file whose UID or GID is 0 or outside the range
\* of the configuration.
OwnerRejected ==
    /\ script_fs # NULLREC
    /\ S_ISREG(script_fs.st_mode)
    /\ ~OwnerInRange

\* C13: a script whose UID is 0 or outside [SCRIPT_MIN_UID, SCRIPT_MAX_UID]
\* (likewise for the GID) makes the helper end with exit status 77.
C13_OwnerRejectionIsNoPerm ==
    OwnerRejected => (pc = "stat_script" /\ status = EX_NOPERM)

\* C13 with the status of the code: a script whose UID is 0 or outside
\* [SCRIPT_MIN_UID, SCRIPT_MAX_UID] (likewise for the GID) makes the helper
\* end at the checks of the script's IDs with exit status 69, before any
\* credential has changed.
C13_OwnerRejectionIsUnavailable ==
    OwnerRejected =>
        /\ pc = "stat_script"
        /\ status = EX_UNAVAILABLE
        /\ ~CredsChanged

\* A script owned by UID 0 has been rejected.
C13_Witness ==
    /\ OwnerRejected
    /\ script_fs.st_uid = 0
    /\ status = EX_UNAVAILABLE

\* C14: after owner resolution the script path must be within the home
\* directory of the script's owner, and at each read of the home directory
\* (canonicality check, containment test, both trust-chain calls) the owner
\* record resolved from the script's UID is still populated.
C14_HomeFromOwnerRecord ==
    /\ status = EXEC => "subdir_home" \in done
    /\ pc \in PwdReaders =>
           /\ pwd # NULLREC
           /\ pwd.pw_uid = script_fs.st_uid

-----------------------------------------------------------------------------
(* Properties of the preprocessor checks, lines 55-117.                    *)

\* The configuration has been compiled or refused.
Preprocessed == pc = "preprocess" /\ res # <<>>

\* C15: a configuration is accepted only if
\* 1 <= SCRIPT_MIN_UID < SCRIPT_MAX_UID <= UID_MAX and
\* 1 <= SCRIPT_MIN_GID < SCRIPT_MAX_GID <= GID_MAX (the system's maximum
\* where the system defines one); a configuration with
\* SCRIPT_MIN_UID >= SCRIPT_MAX_UID is refused whatever the GID bounds are.
C15_RangeValidation ==
    (Preprocessed /\ res[1]) =>
        /\ 1 <= arg.min_uid /\ arg.min_uid < arg.max_uid
        /\ WithinLimit(arg.max_uid, arg.uid_max)
        /\ 1 <= arg.min_gid /\ arg.min_gid < arg.max_gid
        /\ WithinLimit(arg.max_gid, arg.gid_max)

-----------------------------------------------------------------------------
(* Properties of the self-check, lines 1475-1483.                          *)

\* What the self-check may find: a directory above the executable, or the
\* executable, with another owner or mode than required, or an executable
\* that is not a regular file.
SelfFindings == {"excl_prog", "self_check", "self_check_type"}

\* PATH_TRANSLATED is being read or has been read, or a credential has
\* changed.
PastSelfCheck ==
    \/ pc = "get_script_path"
    \/ "script_path" \in done
    \/ CredsChanged

\* C16: PATH_TRANSLATED is read, and credentials are changed, only if the
\* executable is a regular file owned by 0:0 that is neither
\* world-writable nor world-executable and every directory above it up to
\* "/" is owned by 0:0 and not world-writable; a violation of ownership
\* or mode ends the process with exit status 77.
C16_SelfCheckGuardsRequest ==
    /\ PastSelfCheck =>
           /\ {"excl_prog", "self_check"} \subseteq done
           /\ insecure \cap SelfFindings = {}
    /\ "excl_prog" \in insecure =>
           (pc = "excl_prog" /\ status = EX_NOPERM)
    /\ ("self_check" \in insecure /\ "self_check_type" \notin insecure) =>
           (pc = "self_check" /\ status = EX_NOPERM)

\* The executable, a regular file below checked directories, was found with
\* a wrong owner or mode and the run has ended.
C16_Witness ==
    /\ "self_check" \in insecure
    /\ "self_check_type" \notin insecure
    /\ "excl_prog" \in done
    /\ status = EX_NOPERM

-----------------------------------------------------------------------------
(* Properties of the order of main(), lines 1351-1627.                     *)

\* A record of the user or group database has been read.
LookedUp == www # NULLREC \/ pwd # NULLREC \/ grp # NULLREC \/ "owner" \in done

\* The order of the operations as the states show it.
OrderInState ==
    /\ "path_max" \in done => "chdir" \in done
    /\ LookedUp =>
           /\ "sanitise" \in done
           /\ "PATH" \in DOMAIN environ
           /\ environ["PATH"] = SECURE_PATH
    /\ CredsChanged => (www # NULLREC /\ "owner" \in done)
    /\ status = EXEC => {"setgroups", "setgid", "setuid"} \subseteq done

\* No step that changes a credential, and no step after one, reads the user
\* or group database.
OrderInStep ==
    (CredsChanged \/ creds' # creds) =>
        /\ www' = www
        /\ pwd' \in {pwd, NULLREC}
        /\ grp' \in {grp, NULLREC}

\* C17: the environment is fully sanitised (rebuilt and PATH forced) before
\* the first user or group database lookup; every such lookup happens
\* before the first credential change; the working directory is set to "/"
\* before the first path_max probe; execve happens only after the
\* credential changes.
C17_OrderingContract == []OrderInState /\ [][OrderInStep]_vars

\* execve has been called after the lookups and the credential changes.
C17_Witness ==
    /\ status = EXEC
    /\ CredsChanged
    /\ LookedUp
    /\ "path_max" \in done

-----------------------------------------------------------------------------
(* Properties of is_portable_name, lines 1230-1264.                        *)

\* The character classes of ^[A-Za-z_][A-Za-z0-9._-]*$.
Letters == Chars("ABCDEFGHIJKLMNOPQRSTUVWXYZabcdefghijklmnopqrstuvwxyz")
NameStart == Letters \cup {"_"}
NameFurther == Letters \cup Chars("0123456789") \cup {".", "_", "-"}

\* is_portable_name has been called.
PortableCalled == pc = "is_portable_name" /\ res # <<>>

\* C18: is_portable_name(s) returns 0 if and only if s is not empty, its
\* first character is in [A-Za-z_] and every further character is in
\* [A-Za-z0-9._-]; otherwise it returns -1.
C18_PortableNameIff ==
    PortableCalled =>
        IF /\ Len(arg.str) > 0
           /\ CharAt(arg.str, 0) \in NameStart
           /\ \A i \in 1..(Len(arg.str) - 1) :
                  CharAt(arg.str, i) \in NameFurther
        THEN res[1] = 0
        ELSE res[1] = -1

\* A name of three characters with a digit and a dot after a letter was
\* found portable.
C18_Witness ==
    /\ PortableCalled
    /\ arg.str = "a9."
    /\ res[1] = 0

-----------------------------------------------------------------------------
(* C19: the interface to the handler.                                      *)

\* The environment as the sanitiser of lines 1345-1392 leaves it for the
\* request of this run.
SanitisedEnviron ==
    SanitiseFrom(env_in, 1, <<>>)

\* C19: execve gets an argument vector of exactly one element, CGI_HANDLER,
\* and the environment exactly as the sanitiser left it: once PATH has been
\* forced, no step up to execve adds, removes or changes an environment
\* variable.
C19_ExecInterface ==
    /\ [](/\ Len(args) = 1
          /\ args[1] = CGI_HANDLER
          /\ (status = EXEC => environ = SanitisedEnviron))
    /\ [][("sanitise" \in done) => (environ' = environ)]_vars

-----------------------------------------------------------------------------
(* C20: the order of the privilege drop.                                   *)

\* The real, effective and saved IDs of a set of credentials.
Gids(cr) == <<cr.rgid, cr.egid, cr.sgid>>
Uids(cr) == <<cr.ruid, cr.euid, cr.suid>>

\* Each call of the drop is reached only with the calls before it done.
DropOrderInState ==
    /\ (pc \in {"setgid", "setuid", "probe"} \/ "setgid" \in done)
           => "setgroups" \in done
    /\ (pc \in {"setuid", "probe"} \/ "setuid" \in done) => "setgid" \in done
    /\ (pc = "probe" \/ "probe" \in done) => "setuid" \in done
    /\ CredsChanged => "setgroups" \in done
    /\ "setgroups" \in done => creds.groups = {}

\* A step changes the group list only by clearing it before any other call
\* of the drop, the GIDs only by setting the script's GID before the UID is
\* set, and the UIDs only by setting the script's UID after the GID or in
\* the probe after that.
DropOrderInStep ==
    /\ creds'.groups # creds.groups =>
           /\ pc = "setgroups" /\ done \cap {"setgid", "setuid", "probe"} = {}
           /\ creds'.groups = {}
    /\ ("setgid" \in done' /\ "setgid" \notin done) =>
           /\ pc = "setgid" /\ "setgroups" \in done /\ "setuid" \notin done
           /\ creds'.egid = script_fs.st_gid
    /\ Gids(creds') # Gids(creds) =>
           ("setgid" \in done' /\ "setgid" \notin done)
    /\ ("setuid" \in done' /\ "setuid" \notin done) =>
           /\ pc = "setuid" /\ "setgid" \in done /\ "probe" \notin done
           /\ creds'.euid = script_fs.st_uid
    /\ Uids(creds') # Uids(creds) =>
           \/ "setuid" \in done' /\ "setuid" \notin done
           \/ pc = "probe" /\ "setuid" \in done
    /\ ("probe" \in done' /\ "probe" \notin done) =>
           pc = "probe" /\ "setuid" \in done

\* C20: in every run that changes credentials the supplementary groups are
\* cleared first, then the GID is set to the script's, then the UID is set
\* to the script's, then setuid(0) is probed; no call is attempted unless
\* all the calls before it succeeded, and the GID is never set after the
\* UID.
C20_DropProtocolOrder ==
    []DropOrderInState /\ [][DropOrderInStep]_vars

\* The whole drop was made by a process that had supplementary groups and
\* other IDs than the script's.
C20_Witness ==
    /\ "probe" \in done
    /\ creds.groups = {}
    /\ Gids(creds) = <<script_fs.st_gid, script_fs.st_gid, script_fs.st_gid>>
    /\ Uids(creds) = <<script_fs.st_uid, script_fs.st_uid, script_fs.st_uid>>
    /\ caller.uid # script_fs.st_uid

-----------------------------------------------------------------------------
(* C21: the enumeration of the ancestors.                                  *)

\* dir_names has returned.
DirNamesCalled == pc = "dir_names" /\ res # <<>>

\* stop is a proper ancestor of start, both canonical and absolute.
ProperAncestor(stop, start) ==
    /\ start \in AbsPaths(MaxDepth) /\ stop \in AbsPaths(MaxDepth)
    /\ start # stop
    /\ \/ stop = "/"
       \/ /\ Len(start) > Len(stop)
          /\ SubSeq(start, 1, Len(stop) + 1) = stop \o "/"

\* The list in the order of its making: the k-th directory pushed.
Pushed(list, k) == list[Len(list) + 1 - k]

\* The list starts with the parent of start and goes on from parent to
\* parent.
ParentChain(list, start) ==
    /\ Len(list) >= 1
    /\ Pushed(list, 1) = Dirname(start)
    /\ \A k \in 2..Len(list) : Pushed(list, k) = Dirname(Pushed(list, k - 1))

\* C21 as the specification states it: for canonical absolute paths with
\* stop a proper ancestor of start, dir_names(start, stop) yields
\* parent(start), parent(parent(start)), ... and does not contain stop;
\* with stop NULL or no ancestor of start the enumeration ends at "/" or
\* ".".
C21_StopExcluded ==
    DirNamesCalled =>
        /\ ParentChain(res[1], arg.start)
        /\ IF arg.stop # NULL /\ ProperAncestor(arg.stop, arg.start)
           THEN \A k \in 1..Len(res[1]) : res[1][k] # arg.stop
           ELSE Pushed(res[1], Len(res[1])) \in {"/", "."}

\* C21 as the code has it: the enumeration yields parent(start),
\* parent(parent(start)), ... up to and including stop, which is its last
\* and only occurrence, when stop is a proper ancestor of start; with stop
\* NULL or no ancestor of start it goes up to and including "/" or ".".
C21_StopIncluded ==
    DirNamesCalled =>
        /\ ParentChain(res[1], arg.start)
        /\ \A k \in 1..(Len(res[1]) - 1) :
               Pushed(res[1], k) \notin {"/", "."}
               /\ (arg.stop # NULL => Pushed(res[1], k) # arg.stop)
        /\ IF arg.stop # NULL /\ ProperAncestor(arg.stop, arg.start)
           THEN Pushed(res[1], Len(res[1])) = arg.stop
           ELSE Pushed(res[1], Len(res[1])) \in {"/", "."}

\* The ancestors of a script three directories deep were enumerated up to
\* the directory one below the root.
C21_Witness ==
    /\ DirNamesCalled
    /\ arg.start = "/a/e/a" /\ arg.stop = "/a"
    /\ res[1] = <<"/a", "/a/e">>

-----------------------------------------------------------------------------
(* C22: the result of path_max.                                            *)

\* path_max has returned for a path that exists.
PathMaxCalled == pc = "path_max" /\ res # <<>> /\ arg.stat_ok

\* The least number of a non-empty finite set of integers.
Least(S) == CHOOSE m \in S : \A n \in S : m <= n

\* C22: for every existing path and all values of PATH_MAX and of
\* pathconf(dir, _PC_PATH_MAX), each -1 or a non-negative bound, path_max
\* returns the minimum of 256 and those of the two limits that are
\* determinate, and never more than 256.
C22_PathMaxIsMinimum ==
    PathMaxCalled =>
        /\ res[1] = Least({CR_PATH_MAX}
                           \cup ({arg.limit, arg.pc_path_max} \ {-1}))
        /\ res[1] <= CR_PATH_MAX

-----------------------------------------------------------------------------
(* C23: paths that are not canonical.                                      *)

\* The two values of the request that main hands to ASS_CANON, at the place
\* where it does.
CanonSites ==
    {[pc |-> "get_script_path", name |-> "PATH_TRANSLATED"],
     [pc |-> "doc_root", name |-> "DOCUMENT_ROOT"]}

\* realpath_f had a canonical path for PATH_TRANSLATED that is not the
\* path it was given.
ScriptPathDiffers ==
    /\ script_path # NULL
    /\ script_path # getenv_f(environ, "PATH_TRANSLATED")

\* C23 as the specification states it: a value that differs from its
\* canonical form, which exists, is canonicalised and the run is not
\* rejected for the difference.
C23_NonCanonicalAccepted ==
    ScriptPathDiffers => ~(pc = "get_script_path" /\ status = EX_UNAVAILABLE)

\* C23 as the code has it: whenever realpath resolves PATH_TRANSLATED or
\* DOCUMENT_ROOT to a path other than the one given, ASS_CANON ends the run
\* with 69; the path the later checks use is the value as it stands in the
\* environment.
C23_NonCanonicalRejected ==
    /\ \A site \in CanonSites :
           (pc = site.pc /\ status = RUNNING
                /\ getenv_f(environ, site.name) # NULL) =>
               \A o \in RealpathOracle :
                   o.real = "other" =>
                       ASS_CANON(getenv_f(environ, site.name), FALSE,
                                 dirname_inplace, o).status = EX_UNAVAILABLE
    /\ ScriptPathDiffers => (pc = "get_script_path" /\ status = EX_UNAVAILABLE)
    /\ "script_path" \in done =>
           script_path = getenv_f(environ, "PATH_TRANSLATED")

\* A run was ended because PATH_TRANSLATED resolved to another path.
C23_Witness ==
    /\ ScriptPathDiffers
    /\ pc = "get_script_path"
    /\ status = EX_UNAVAILABLE
    /\ sys_ok

-----------------------------------------------------------------------------
(* C24: the bounds of the containment test.                                *)

\* C24: for all strings sub and super, is_subdir_f(sub, super) reads sub
\* only at the indices 0..strlen(sub): the index strlen(super) of the
\* separator it reads is never greater than strlen(sub), also when sub is
\* shorter than super.
C24_ReadsWithinSub ==
    SubdirCalled => Len(arg.super) <= Len(arg.sub)

=============================================================================
